---------------------------- MODULE Spec2Model ----------------------------
(***************************************************************************)
(* A model of selenium-recorder-mcp: the CDP recorder (event ingestion     *)
(* with a hard cap), the event processor (sensitive field masking), the    *)
(* recording storage (JSON files keyed by session id) and the MCP server   *)
(* operations that tie them together.                                      *)
(*                                                                         *)
(* Python values are modelled as follows: a str is a TLA+ string, a list   *)
(* is a sequence, a dict is a function with a domain of strings (a         *)
(* record), None inside event payloads is the string None, and an optional *)
(* argument of a call is Some(v) or Nothing.  An operator that models a    *)
(* Python function which can raise returns Raise(e) in that case.          *)
(***************************************************************************)
EXTENDS Integers, Sequences, FiniteSets, TLC

VARIABLES
    now,               \* the wall clock read by datetime.now()
    recorders,         \* the CDPRecorder objects, by object handle
    active_recorders,  \* server.active_recorders: session id -> handle
    event_processor,   \* server.event_processor (module-level global)
    files,             \* the recordings directory: file name -> content
    arg,               \* the input of a specification of a pure function
    ret                \* the outcome of the last operation

vars == <<now, recorders, active_recorders, event_processor, files, arg, ret>>

-----------------------------------------------------------------------------
(* Python values *)

None == "<None>"

Nothing == [some |-> FALSE]

Some(v) == [some |-> TRUE, v |-> v]

Raise(e) == [exc |-> e]

IsExc(r) == "exc" \in DOMAIN r

\* dict.get(k, default)
Get(d, k, default) == IF k \in DOMAIN d THEN d[k] ELSE default

\* d[k] = v
Put(d, k, v) == [x \in (DOMAIN d) \cup {k} |-> IF x = k THEN v ELSE d[x]]

\* Python truthiness of a str-or-None value
Truthy(v) == v # None /\ v # ""

-----------------------------------------------------------------------------
(* str operations *)

LowerChar(c) ==
    CASE c = "A" -> "a" [] c = "B" -> "b" [] c = "C" -> "c" [] c = "D" -> "d"
      [] c = "E" -> "e" [] c = "F" -> "f" [] c = "G" -> "g" [] c = "H" -> "h"
      [] c = "I" -> "i" [] c = "J" -> "j" [] c = "K" -> "k" [] c = "L" -> "l"
      [] c = "M" -> "m" [] c = "N" -> "n" [] c = "O" -> "o" [] c = "P" -> "p"
      [] c = "Q" -> "q" [] c = "R" -> "r" [] c = "S" -> "s" [] c = "T" -> "t"
      [] c = "U" -> "u" [] c = "V" -> "v" [] c = "W" -> "w" [] c = "X" -> "x"
      [] c = "Y" -> "y" [] c = "Z" -> "z" [] OTHER -> c

RECURSIVE lower(_)
\* str.lower()
lower(s) ==
    IF s = "" THEN ""
    ELSE LowerChar(SubSeq(s, 1, 1)) \o lower(SubSeq(s, 2, Len(s)))

\* p in s
Contains(s, p) ==
    \E i \in 1..(Len(s) - Len(p) + 1) : SubSeq(s, i, i + Len(p) - 1) = p

StartsWith(s, p) == Len(s) >= Len(p) /\ SubSeq(s, 1, Len(p)) = p

EndsWith(s, p) ==
    Len(s) >= Len(p) /\ SubSeq(s, Len(s) - Len(p) + 1, Len(s)) = p

RECURSIVE Join(_, _)
\* sep.join(str(a) for a in toks)
Join(toks, sep) ==
    IF toks = <<>> THEN ""
    ELSE IF Len(toks) = 1 THEN toks[1]
    ELSE toks[1] \o sep \o Join(Tail(toks), sep)

-----------------------------------------------------------------------------
(* event_processor.py *)

MASKED == "***MASKED***"

\* A default selector is the regex  <pre>['\"]?<word>['\"]?\]  with <pre>
\* and <word> literal text.
Selector(pre, word) == [kind |-> "selector", pre |-> pre, word |-> word]

\* A caller-supplied selector that is a plain literal (no metacharacters).
Literal(text) == [kind |-> "literal", pre |-> text, word |-> ""]

\* The language of  ['\"]?
OptQuote == {"", "'", "\""}

\* re.compile(pattern): the finite set of strings the regex matches.
Lang(pattern) ==
    IF pattern.kind = "literal" THEN {pattern.pre}
    ELSE {pattern.pre \o q1 \o pattern.word \o q2 \o "]" :
            q1 \in OptQuote, q2 \in OptQuote}

DEFAULT_SENSITIVE_SELECTORS ==
    << Selector("input[type=", "password"),
       Selector("input[name*=", "password"),
       Selector("input[name*=", "passwd"),
       Selector("input[id*=", "password"),
       Selector("input[name*=", "secret"),
       Selector("input[name*=", "token") >>

\* EventProcessor.__init__
EventProcessor(sensitive_selectors) ==
    [sensitive_patterns |->
        IF ~sensitive_selectors.some THEN DEFAULT_SENSITIVE_SELECTORS
        ELSE sensitive_selectors.v \o DEFAULT_SENSITIVE_SELECTORS]

\* pattern.search(s) for a pattern compiled with re.IGNORECASE
pattern_search(pattern, s) ==
    \E w \in Lang(pattern) : Contains(lower(s), lower(w))

\* A value that is not a mapping where the code reads one: a node of a
\* DOM.setChildNodes list, the payload of a click.
NonMapping(v) == [nonmapping |-> v]

IsDict(node) == "nonmapping" \notin DOMAIN node

_is_sensitive_field(self, node_data) ==
    IF ~IsDict(node_data) THEN FALSE
    ELSE LET node_name == lower(Get(node_data, "nodeName", ""))
             attributes == Get(node_data, "attributes", <<>>)
             attr_str == lower(Join(attributes, " "))
         IN  IF node_name # "input" THEN FALSE
             ELSE IF attributes = <<>> THEN FALSE
             ELSE \E i \in 1..Len(self.sensitive_patterns) :
                     pattern_search(self.sensitive_patterns[i], attr_str)

\* A mutant of _mask_value that puts the token before the value.
_mask_value_prefixed(value) == IF ~Truthy(value) THEN value ELSE MASKED \o value

_mask_value_always(value) == MASKED

_mask_value(value) == IF ~Truthy(value) THEN value ELSE MASKED

_process_attribute_modified(self, event) ==
    LET data == Get(event, "data", <<>>)
        name == Get(data, "name", "")
    IN  IF name = None THEN Raise("AttributeError")  \* None.lower()
        ELSE LET attr_name == lower(name)
             IN  IF \/ attr_name = "value"
                    \/ Contains(attr_name, "password")
                    \/ Contains(attr_name, "secret")
                 THEN [event EXCEPT !.data =
                         Put(Put(data, "value",
                                 _mask_value(Get(data, "value", ""))),
                             "_masked", TRUE)]
                 ELSE event

\* The parity test of a mutant that takes the name slots for value slots.
_mask_node_attributes_parity(self, node) ==
    IF "attributes" \notin DOMAIN node THEN node
    ELSE LET attributes == node.attributes
             masked_attributes ==
                 [p \in 1..Len(attributes) |->
                     IF /\ p % 2 = 1
                        /\ p > 1
                        /\ \/ lower(attributes[p - 1]) = "value"
                           \/ Contains(lower(attributes[p - 1]), "password")
                           \/ Contains(lower(attributes[p - 1]), "secret")
                     THEN _mask_value(attributes[p])
                     ELSE attributes[p]]
         IN  Put(Put(node, "attributes", masked_attributes), "_masked", TRUE)

\* Python index i (0-based) is position i + 1 here: the value slots, odd in
\* Python, are the even positions.  The tokens are strings, on which str()
\* is the identity.
_mask_node_attributes(self, node) ==
    IF "attributes" \notin DOMAIN node THEN node
    ELSE LET attributes == node.attributes
             masked_attributes ==
                 [p \in 1..Len(attributes) |->
                     IF /\ p % 2 = 0
                        /\ \/ lower(attributes[p - 1]) = "value"
                           \/ Contains(lower(attributes[p - 1]), "password")
                           \/ Contains(lower(attributes[p - 1]), "secret")
                     THEN _mask_value(attributes[p])
                     ELSE attributes[p]]
         IN  Put(Put(node, "attributes", masked_attributes), "_masked", TRUE)

_process_set_child_nodes(self, event) ==
    LET data == Get(event, "data", <<>>)
        nodes == Get(data, "nodes", <<>>)
        processed_nodes ==
            [i \in 1..Len(nodes) |->
                IF _is_sensitive_field(self, nodes[i])
                THEN _mask_node_attributes(self, nodes[i])
                ELSE nodes[i]]
    IN  IF nodes = <<>> THEN event
        ELSE [event EXCEPT !.data = Put(data, "nodes", processed_nodes)]

_process_character_data_modified(self, event) == event

process_event(self, event) ==
    LET event_type == Get(event, "type", None)
    IN  IF event_type = "dom_attribute_modified"
        THEN _process_attribute_modified(self, event)
        ELSE IF event_type = "dom_set_child_nodes"
        THEN _process_set_child_nodes(self, event)
        ELSE IF event_type = "dom_character_data_modified"
        THEN _process_character_data_modified(self, event)
        ELSE event

\* A mutant of process_events that leaves out the events it would rewrite.
process_events_drops(self, events) ==
    [value |-> SelectSeq(events, LAMBDA e : process_event(self, e) = e)]

\* [self.process_event(event) for event in events]: the first event that
\* raises ends the comprehension.  Returns [value |-> list] or Raise(e).
process_events(self, events) ==
    LET out == [i \in 1..Len(events) |-> process_event(self, events[i])]
    IN  IF \E i \in 1..Len(out) : IsExc(out[i])
        THEN out[CHOOSE i \in 1..Len(out) :
                    IsExc(out[i]) /\ \A j \in 1..(i - 1) : ~IsExc(out[j])]
        ELSE [value |-> out]

RECURSIVE analyze_loop(_, _)
\* The loop of analyze_events over the events left: the summary, or
\* Raise(e) when a statement raises.
analyze_loop(summary, events) ==
    IF events = <<>> THEN [exc |-> None, value |-> summary]
    ELSE LET event == Head(events)
             event_type == Get(event, "type", "unknown")
             typed == [summary EXCEPT !.event_types =
                          Put(@, event_type, Get(@, event_type, 0) + 1)]
             counted ==
                 IF event_type = "console_log"
                 THEN [typed EXCEPT !.console_logs = @ + 1]
                 ELSE IF event_type = "js_error"
                 THEN [typed EXCEPT !.js_errors = @ + 1]
                 ELSE IF event_type = "click"
                 THEN [typed EXCEPT !.clicks = @ + 1]
                 ELSE IF StartsWith(event_type, "dom_")
                 THEN [typed EXCEPT !.dom_mutations = @ + 1]
                 ELSE typed
             data == Get(event, "data", <<>>)
         IN  IF ~IsDict(data) THEN Raise("AttributeError")
             ELSE analyze_loop(
                     IF Get(data, "_masked", FALSE)
                     THEN [counted EXCEPT !.masked_events = @ + 1]
                     ELSE counted,
                     Tail(events))

\* EventProcessor.analyze_events: [exc, value] or Raise(e)
analyze_events(self, events) ==
    analyze_loop([total_events |-> Len(events), event_types |-> <<>>,
                  console_logs |-> 0, js_errors |-> 0, dom_mutations |-> 0,
                  clicks |-> 0, masked_events |-> 0],
                 events)

AnalyzeEvents ==
    /\ ret.op = "none"
    /\ ret' = [op |-> "analyze_events"]
                @@ analyze_events(arg.self, arg.events)
    /\ UNCHANGED <<now, recorders, active_recorders, event_processor, files,
                   arg>>

-----------------------------------------------------------------------------
(* datetime *)

\* The clock counts ticks; TicksPerSecond of them make one second.
TicksPerSecond == 2

MaxClock == 2

Digit(n) == SubSeq("0123456789", n + 1, n + 1)

\* datetime.now().strftime("%Y%m%d_%H%M%S"): whole seconds
strftime(t) == "20240101_00000" \o Digit(t \div TicksPerSecond)

\* datetime.now().isoformat(): the fraction is left out when it is zero
isoformat(t) ==
    "2024-01-01T00:00:0" \o Digit(t \div TicksPerSecond)
        \o (IF t % TicksPerSecond = 0 THEN ""
            ELSE "." \o Digit(t % TicksPerSecond) \o "00000")

\* The characters of timestamps, in code point order.
TimestampChars == " +-.0123456789:TZ"

\* The rank of a character among them: ord(c) up to an order isomorphism.
Ord(c) ==
    CHOOSE i \in 1..Len(TimestampChars) : SubSeq(TimestampChars, i, i) = c

RECURSIVE StrLessEq(_, _)
\* a <= b on Python strings: by code point, a proper prefix being smaller
StrLessEq(a, b) ==
    IF a = "" THEN TRUE
    ELSE IF b = "" THEN FALSE
    ELSE LET ca == Ord(SubSeq(a, 1, 1))
             cb == Ord(SubSeq(b, 1, 1))
         IN  IF ca # cb THEN ca < cb
             ELSE StrLessEq(SubSeq(a, 2, Len(a)), SubSeq(b, 2, Len(b)))

-----------------------------------------------------------------------------
(* storage.py *)

HexHyphen ==
    {"a", "b", "c", "d", "e", "f", "-",
     "0", "1", "2", "3", "4", "5", "6", "7", "8", "9"}

\* re.match(r'^[a-f0-9-]{36}$', session_id): after the 36 characters, $
\* matches at the end of the string and also just before a newline that
\* ends the string.
SessionIdMatch(session_id) ==
    /\ Len(session_id) >= 36
    /\ \A i \in 1..36 : SubSeq(session_id, i, i) \in HexHyphen
    /\ \/ Len(session_id) = 36
       \/ Len(session_id) = 37 /\ SubSeq(session_id, 37, 37) = "\n"

\* RecordingStorage._validate_session_id: None, or the error it raises
_validate_session_id(session_id) ==
    IF ~SessionIdMatch(session_id) THEN "ValueError" ELSE None

\* The check that opens stop_recording, get_recording and
\* analyze_recording: None, or the error it raises
session_id_check(session_id) ==
    IF ~Truthy(session_id) THEN "ValueError"
    ELSE IF ~SessionIdMatch(session_id) THEN "ValueError"
    ELSE None

\* list(self.recordings_dir.glob(f"{session_id}_*.json")), as a set: the
\* order of the list is the directory's.
glob(dir, session_id) ==
    {f \in DOMAIN dir :
        /\ StartsWith(f, session_id \o "_")
        /\ EndsWith(f, ".json")
        /\ Len(f) >= Len(session_id) + 6}

\* The length of the JSON text of a list of events, in units of one small
\* serialized event.  A dom_set_child_nodes event carries whole subtrees of
\* the document and counts double.
RECURSIVE SerializedLength(_)
SerializedLength(events) ==
    IF events = <<>> THEN 0
    ELSE (IF Get(Head(events), "type", None) = "dom_set_child_nodes"
          THEN 2 ELSE 1) + SerializedLength(Tail(events))

\* A file's content stands for the JSON text written: the document that
\* json.load reads back from it, and the length of the text.
json_dumps(recording_data) ==
    [doc |-> recording_data, bytes |-> SerializedLength(recording_data.events)]

json_load(text) == text.doc

\* The ceiling of save_recording, in the same unit.
MAX_FILE_SIZE == 3

\* A mutant of save_recording that writes the file and then tests its size.
save_recording_writes_first(dir, t, session_data, url) ==
    LET session_id == Get(session_data, "session_id", None)
        filename == session_id \o "_" \o strftime(t) \o ".json"
        recording_data ==
            [session_id |-> session_id,
             url |-> url,
             start_time |-> Get(session_data, "start_time", None),
             end_time |-> Get(session_data, "end_time", None),
             events |-> Get(session_data, "events", <<>>),
             metadata |->
                [saved_at |-> isoformat(t),
                 event_count |-> Len(Get(session_data, "events", <<>>))]]
        data_str == json_dumps(recording_data)
    IN  IF ~Truthy(session_id)
        THEN [exc |-> "ValueError", fs |-> FALSE, path |-> None, dir |-> dir]
        ELSE IF _validate_session_id(session_id) # None
        THEN [exc |-> "ValueError", fs |-> FALSE, path |-> None, dir |-> dir]
        ELSE IF data_str.bytes > MAX_FILE_SIZE
        THEN [exc |-> "ValueError", fs |-> TRUE, path |-> None,
              dir |-> Put(dir, filename, data_str)]
        ELSE [exc |-> None, fs |-> TRUE, path |-> filename,
              dir |-> Put(dir, filename, data_str)]

\* save_recording: [exc, fs, path, dir'] for a directory dir at time t
save_recording(dir, t, session_data, url) ==
    LET session_id == Get(session_data, "session_id", None)
        filename == session_id \o "_" \o strftime(t) \o ".json"
        recording_data ==
            [session_id |-> session_id,
             url |-> url,
             start_time |-> Get(session_data, "start_time", None),
             end_time |-> Get(session_data, "end_time", None),
             events |-> Get(session_data, "events", <<>>),
             metadata |->
                [saved_at |-> isoformat(t),
                 event_count |-> Len(Get(session_data, "events", <<>>))]]
        data_str == json_dumps(recording_data)
    IN  IF ~Truthy(session_id)
        THEN [exc |-> "ValueError", fs |-> FALSE, path |-> None, dir |-> dir]
        ELSE IF _validate_session_id(session_id) # None
        THEN [exc |-> "ValueError", fs |-> FALSE, path |-> None, dir |-> dir]
        ELSE IF data_str.bytes > MAX_FILE_SIZE
        THEN [exc |-> "ValueError", fs |-> FALSE, path |-> None, dir |-> dir]
        ELSE [exc |-> None, fs |-> TRUE, path |-> filename,
              dir |-> Put(dir, filename, data_str)]

\* load_recording, given the file that glob lists first (None: no match)
load_recording(dir, session_id, first) ==
    IF _validate_session_id(session_id) # None
    THEN [exc |-> "ValueError", fs |-> FALSE, found |-> FALSE]
    ELSE IF first = None
    THEN [exc |-> None, fs |-> TRUE, found |-> FALSE]
    ELSE [exc |-> None, fs |-> TRUE, found |-> TRUE,
          value |-> json_load(dir[first])]

\* The files glob may list first: any match, or None when there is none.
FirstMatches(dir, session_id) ==
    IF glob(dir, session_id) = {} THEN {None} ELSE glob(dir, session_id)

\* A mutant of delete_recording that unlinks the first match only.
delete_recording_first(dir, session_id) ==
    LET matching_files == glob(dir, session_id)
        first == CHOOSE f \in matching_files : TRUE
    IN  IF _validate_session_id(session_id) # None
        THEN [exc |-> "ValueError", fs |-> FALSE, value |-> FALSE, dir |-> dir]
        ELSE IF matching_files = {}
        THEN [exc |-> None, fs |-> TRUE, value |-> FALSE, dir |-> dir]
        ELSE [exc |-> None, fs |-> TRUE, value |-> TRUE,
              dir |-> [f \in (DOMAIN dir) \ {first} |-> dir[f]]]

\* delete_recording
delete_recording(dir, session_id) ==
    LET matching_files == glob(dir, session_id)
    IN  IF _validate_session_id(session_id) # None
        THEN [exc |-> "ValueError", fs |-> FALSE, value |-> FALSE, dir |-> dir]
        ELSE IF matching_files = {}
        THEN [exc |-> None, fs |-> TRUE, value |-> FALSE, dir |-> dir]
        ELSE [exc |-> None, fs |-> TRUE, value |-> TRUE,
              dir |-> [f \in (DOMAIN dir) \ matching_files |-> dir[f]]]

\* The ceiling of list_recordings on the size of a file it reads, in the
\* same unit: a fifth of the ceiling of save_recording in the code, below
\* it here.
LIST_MAX_FILE_SIZE == 2

\* The orders in which glob can list the files of a directory.
RECURSIVE Orders(_)
Orders(S) ==
    IF S = {} THEN {<<>>}
    ELSE UNION {{<<f>> \o order : order \in Orders(S \ {f})} : f \in S}

\* a < b on Python strings
StrLess(a, b) == ~StrLessEq(b, a)

RECURSIVE sorted_reverse(_)
\* sorted(recordings, key=lambda x: x.get("start_time", ""), reverse=True)
\* on string keys: descending, entries of equal keys in their order in
\* the list.
sorted_reverse(recordings) ==
    IF recordings = <<>> THEN <<>>
    ELSE LET x == Head(recordings)
             rest == sorted_reverse(Tail(recordings))
             k == Cardinality({i \in 1..Len(rest) :
                     StrLess(Get(x, "start_time", ""),
                             Get(rest[i], "start_time", ""))})
         IN  SubSeq(rest, 1, k) \o <<x>> \o SubSeq(rest, k + 1, Len(rest))

\* The loop of list_recordings over the files in glob's order: a file above
\* the ceiling is skipped.  Every file of the directory was written by
\* save_recording, so json.load reads each of them.
list_entries(dir, order) ==
    LET kept == SelectSeq(order, LAMBDA f : ~(dir[f].bytes > LIST_MAX_FILE_SIZE))
    IN  [i \in 1..Len(kept) |->
            LET data == json_load(dir[kept[i]])
            IN  [session_id |-> Get(data, "session_id", None),
                 url |-> Get(data, "url", None),
                 start_time |-> Get(data, "start_time", None),
                 event_count |->
                    Get(Get(data, "metadata", <<>>), "event_count", 0),
                 filepath |-> kept[i]]]

\* list_recordings, given glob's order.  Every entry has the key
\* start_time, so the default "" of the sort key is never used and the key
\* of a document without a start time is None; sorting two or more entries
\* compares every key with another one, and None < x raises TypeError.
list_recordings(dir, order) ==
    LET recordings == list_entries(dir, order)
    IN  IF /\ Len(recordings) >= 2
           /\ \E i \in 1..Len(recordings) :
                 Get(recordings[i], "start_time", "") = None
        THEN [exc |-> "TypeError", value |-> <<>>]
        ELSE [exc |-> None, value |-> sorted_reverse(recordings)]

RECURSIVE Breakdown_NoIncrement(_)
\* The counting loop of a mutant that stores 1 instead of adding 1.
Breakdown_NoIncrement(events) ==
    IF events = <<>> THEN <<>>
    ELSE LET before == Breakdown_NoIncrement(SubSeq(events, 1, Len(events) - 1))
             event_type == Get(events[Len(events)], "type", "unknown")
         IN  Put(before, event_type, 1)

RECURSIVE Breakdown(_)
\* The loop of load_filtered_recording that counts the events by type.
Breakdown(events) ==
    IF events = <<>> THEN <<>>
    ELSE LET before == Breakdown(SubSeq(events, 1, Len(events) - 1))
             event_type == Get(events[Len(events)], "type", "unknown")
         IN  Put(before, event_type, Get(before, event_type, 0) + 1)

\* A mutant of events[offset:] that starts one event early.
SliceFrom_early(events, offset) == SubSeq(events, offset, Len(events))

\* events[offset:] for offset > 0
SliceFrom(events, offset) ==
    IF offset >= Len(events) THEN <<>>
    ELSE SubSeq(events, offset + 1, Len(events))

\* events[:limit]; a negative limit counts from the end
SliceTo(events, limit) ==
    LET stop == IF limit >= 0 THEN limit ELSE Len(events) + limit
    IN  IF stop <= 0 THEN <<>>
        ELSE IF stop >= Len(events) THEN events
        ELSE SubSeq(events, 1, stop)

\* load_filtered_recording, given the file that glob lists first
load_filtered_recording(dir, session_id, first, event_types, limit, offset, from_timestamp, to_timestamp, include_events) ==
    LET loaded == load_recording(dir, session_id, first)
        recording == loaded.value
        events0 == Get(recording, "events", <<>>)
        total_events == Len(events0)
        event_type_breakdown ==
            Breakdown(events0)
        file_path == first
        by_type == event_types.some /\ event_types.v # <<>>
        events1 ==
            IF by_type
            THEN SelectSeq(events0,
                    LAMBDA e : \E i \in 1..Len(event_types.v) :
                                  Get(e, "type", None) = event_types.v[i])
            ELSE events0
        events2 ==
            IF Truthy(from_timestamp)
            THEN SelectSeq(events1,
                    LAMBDA e : StrLessEq(from_timestamp,
                                         Get(e, "timestamp", "")))
            ELSE events1
        events3 ==
            IF Truthy(to_timestamp)
            THEN SelectSeq(events2,
                    LAMBDA e : StrLessEq(Get(e, "timestamp", ""),
                                         to_timestamp))
            ELSE events2
        events4 == IF offset > 0 THEN SliceFrom(events3, offset) ELSE events3
        events5 == IF limit.some THEN SliceTo(events4, limit.v) ELSE events4
        applied ==
            (IF by_type THEN {"event_types"} ELSE {})
            \cup (IF Truthy(from_timestamp) THEN {"from_timestamp"} ELSE {})
            \cup (IF Truthy(to_timestamp) THEN {"to_timestamp"} ELSE {})
            \cup (IF offset > 0 THEN {"offset"} ELSE {})
            \cup (IF limit.some THEN {"limit"} ELSE {})
        filters_applied ==
            [k \in applied |->
                CASE k = "event_types" -> event_types.v
                  [] k = "from_timestamp" -> from_timestamp
                  [] k = "to_timestamp" -> to_timestamp
                  [] k = "offset" -> offset
                  [] k = "limit" -> limit.v]
    IN  IF loaded.exc # None \/ ~loaded.found THEN loaded
        ELSE IF ~include_events
        THEN [exc |-> None, fs |-> TRUE, found |-> TRUE,
              value |->
                [session_id |-> recording.session_id,
                 url |-> recording.url,
                 start_time |-> recording.start_time,
                 end_time |-> recording.end_time,
                 file_path |-> file_path,
                 metadata |->
                    [total_events |-> total_events,
                     event_type_breakdown |-> event_type_breakdown,
                     original_saved_at |-> recording.metadata.saved_at,
                     message |-> "No events returned."]]]
        ELSE [exc |-> None, fs |-> TRUE, found |-> TRUE,
              value |->
                [session_id |-> recording.session_id,
                 url |-> recording.url,
                 start_time |-> recording.start_time,
                 end_time |-> recording.end_time,
                 file_path |-> file_path,
                 events |-> events5,
                 metadata |->
                    [total_events |-> total_events,
                     returned_events |-> Len(events5),
                     event_type_breakdown |-> event_type_breakdown,
                     filters_applied |->
                        IF applied = {} THEN Nothing
                        ELSE Some(filters_applied),
                     original_saved_at |-> recording.metadata.saved_at]]]

-----------------------------------------------------------------------------
(* Actions of the store *)

Idle == [op |-> "none"]

Event(type, timestamp, data) ==
    [type |-> type, timestamp |-> timestamp, data |-> data]

Tick ==
    /\ now < MaxClock
    /\ now' = now + 1
    /\ UNCHANGED <<recorders, active_recorders, event_processor, files, arg, ret>>

SaveRecording(session_data, url) ==
    LET r == save_recording(files, now, session_data, url)
    IN  /\ files' = r.dir
        /\ ret' = [op |-> "save_recording",
                   session_id |-> Get(session_data, "session_id", None),
                   events |-> Get(session_data, "events", <<>>),
                   exc |-> r.exc, fs |-> r.fs, path |-> r.path]
        /\ UNCHANGED <<now, recorders, active_recorders, event_processor, arg>>

LoadRecording(session_id) ==
    \E first \in FirstMatches(files, session_id) :
        /\ ret' = [op |-> "load_recording", session_id |-> session_id]
                    @@ load_recording(files, session_id, first)
        /\ UNCHANGED <<now, recorders, active_recorders, event_processor,
                       files, arg>>

LoadFilteredRecording(session_id, event_types, limit, offset, from_timestamp, to_timestamp, include_events) ==
    \E first \in FirstMatches(files, session_id) :
        /\ ret' = [op |-> "load_filtered_recording",
                   session_id |-> session_id,
                   event_types |-> event_types, limit |-> limit,
                   offset |-> offset, from_timestamp |-> from_timestamp,
                   to_timestamp |-> to_timestamp,
                   include_events |-> include_events,
                   first |-> first]
                    @@ load_filtered_recording(files, session_id, first,
                            event_types, limit, offset, from_timestamp,
                            to_timestamp, include_events)
        /\ UNCHANGED <<now, recorders, active_recorders, event_processor,
                       files, arg>>

DeleteRecording(session_id) ==
    LET r == delete_recording(files, session_id)
    IN  /\ files' = r.dir
        /\ ret' = [op |-> "delete_recording", session_id |-> session_id,
                   exc |-> r.exc, fs |-> r.fs, value |-> r.value]
        /\ UNCHANGED <<now, recorders, active_recorders, event_processor, arg>>

ListRecordings ==
    \E order \in Orders(DOMAIN files) :
        \E res \in {list_recordings(files, order)} :
            /\ ret' = [op |-> "list_recordings", exc |-> res.exc,
                       value |-> res.value]
            /\ UNCHANGED <<now, recorders, active_recorders, event_processor,
                           files, arg>>


-----------------------------------------------------------------------------
(* cdp_recorder.py *)

\* The cap on a recorder's event list.  CDPRecorder.__init__ sets 10000;
\* the model keeps the list short.
max_events == 2

\* CDPRecorder.__init__.  The playwright objects are modelled by whether
\* the field holds one; listening says that connect has attached the
\* listeners to a page that is still open.
CDPRecorder(headless) ==
    [headless |-> headless,
     playwright |-> FALSE,
     browser |-> FALSE,
     page |-> FALSE,
     cdp_session |-> FALSE,
     session_id |-> None,
     events |-> <<>>,
     start_time |-> None,
     _pending_url |-> None,
     max_events |-> max_events,
     listening |-> FALSE]

\* The position of the first ':' of url, 0 when there is none.
FirstColon(url) ==
    IF Contains(url, ":")
    THEN CHOOSE i \in 1..Len(url) :
            /\ SubSeq(url, i, i) = ":"
            /\ \A j \in 1..(i - 1) : SubSeq(url, j, j) # ":"
    ELSE 0

SchemeChars == "abcdefghijklmnopqrstuvwxyz0123456789+-."

\* urlparse(url).scheme: the text before the first ':' in lower case when
\* it is a letter followed by letters, digits, '+', '-' or '.'; else empty.
urlparse_scheme(url) ==
    LET c == FirstColon(url)
        head == lower(SubSeq(url, 1, c - 1))
    IN  IF c <= 1 THEN ""
        ELSE IF /\ \A i \in 1..Len(head) :
                     Contains(SchemeChars, SubSeq(head, i, i))
                /\ Contains(SubSeq(SchemeChars, 1, 26), SubSeq(head, 1, 1))
        THEN head
        ELSE ""

\* start_chrome without the test of the scheme
start_chrome_unchecked(self, url) ==
    IF self.browser THEN [exc |-> None, self |-> self]
    ELSE [exc |-> None,
          self |-> [self EXCEPT !.playwright = TRUE, !.browser = TRUE,
                                !.page = TRUE, !._pending_url = url]]

\* start_chrome: [exc, self']
start_chrome(self, url) ==
    IF self.browser THEN [exc |-> None, self |-> self]
    ELSE IF /\ Truthy(url)
            /\ urlparse_scheme(url) # ""
            /\ urlparse_scheme(url) \notin {"http", "https", "data"}
    THEN [exc |-> "ValueError", self |-> self]
    ELSE [exc |-> None,
          self |-> [self EXCEPT !.playwright = TRUE, !.browser = TRUE,
                                !.page = TRUE, !._pending_url = url]]

\* connect, with the session id that uuid4 draws: [exc, self', value]
connect(self, t, uuid4) ==
    IF ~self.page
    THEN [exc |-> "RuntimeError", self |-> self, value |-> None]
    ELSE [exc |-> None,
          self |-> [self EXCEPT !.session_id = uuid4, !.start_time = isoformat(t),
                                !.events = <<>>, !.cdp_session = TRUE,
                                !.listening = TRUE, !._pending_url = None],
          value |-> uuid4]

\* _add_event of a mutant that tests the cap with > in place of >=.
_add_event_gt(self, t, event_type, data) ==
    IF Len(self.events) > self.max_events
    THEN [exc |-> "RuntimeError", self |-> self]
    ELSE [exc |-> None,
          self |-> [self EXCEPT !.events =
                        Append(@, Event(event_type, isoformat(t), data))]]

\* _add_event at time t: [exc, self']
_add_event(self, t, event_type, data) ==
    IF Len(self.events) >= self.max_events
    THEN [exc |-> "RuntimeError", self |-> self]
    ELSE [exc |-> None,
          self |-> [self EXCEPT !.events =
                        Append(@, Event(event_type, isoformat(t), data))]]

\* msg.args holds the str() of each argument, or Nothing when reading the
\* arguments raises and the handler falls back to msg.text.
_on_console_log(self, t, msg) ==
    LET args == IF msg.args.some THEN msg.args.v ELSE <<msg.text>>
    IN  _add_event(self, t, "console_log",
            [level |-> msg.type,
             args |-> args,
             location |->
                [url |-> Get(msg.location, "url", ""),
                 lineNumber |-> Get(msg.location, "lineNumber", 0)]])

\* error.message stands for str(error)
_on_js_error(self, t, error) ==
    _add_event(self, t, "js_error",
        [message |-> error.message, stack |-> Get(error, "stack", "")])

\* _on_page_load only schedules the injection of the click tracker.
_on_page_load(self) == [exc |-> None, self |-> self]

_on_document_updated(self, t, params) ==
    _add_event(self, t, "document_updated", <<>>)

\* params or {}
OrEmpty(params) == IF params.some THEN params.v ELSE <<>>

_on_set_child_nodes(self, t, params) ==
    _add_event(self, t, "dom_set_child_nodes",
        [parent_id |-> Get(OrEmpty(params), "parentId", None),
         nodes |-> Get(OrEmpty(params), "nodes", <<>>)])

_on_attribute_modified(self, t, params) ==
    _add_event(self, t, "dom_attribute_modified",
        [node_id |-> Get(OrEmpty(params), "nodeId", None),
         name |-> Get(OrEmpty(params), "name", None),
         value |-> Get(OrEmpty(params), "value", None)])

_on_character_data_modified(self, t, params) ==
    _add_event(self, t, "dom_character_data_modified",
        [node_id |-> Get(OrEmpty(params), "nodeId", None),
         character_data |-> Get(OrEmpty(params), "characterData", None)])

\* The texts the click binding is called with in the model.
ClickJson == "{\"tagName\": \"BUTTON\", \"id\": \"go\"}"

ClickTexts == {ClickJson, "null", "{\"tagName\": ", ""}

\* json.loads on those texts: [value |-> v] or Raise(e)
json_loads(data) ==
    IF data = ClickJson THEN [value |-> [tagName |-> "BUTTON", id |-> "go"]]
    ELSE IF data = "null" THEN [value |-> NonMapping(None)]
    ELSE Raise("JSONDecodeError")

\* _handle_click_binding: a text that is not JSON is dropped before
\* _add_event; an error of _add_event is not caught.
_handle_click_binding(self, t, source, data) ==
    LET click_data == json_loads(data)
    IN  IF IsExc(click_data)
        THEN [exc |-> None, self |-> self]
        ELSE _add_event(self, t, "click", click_data.value)

\* stop at time t: [exc, value]
stop(self, t) ==
    IF ~Truthy(self.session_id)
    THEN [exc |-> "RuntimeError", value |-> None]
    ELSE [exc |-> None,
          value |-> [session_id |-> self.session_id,
                     start_time |-> self.start_time,
                     end_time |-> isoformat(t),
                     events |-> self.events]]

\* The awaited releases of close; raised names the one that raises when
\* close reaches it, None when all of them return.
CloseAwaits == <<"page.close", "browser.close", "playwright.stop">>

Range(seq) == {seq[i] : i \in DOMAIN seq}

\* The try block of close: the recorder as the block leaves it, and
\* whether it ended in the raising release.  Each field is cleared after
\* its release has returned.
close_try(self, raised) ==
    LET detached == [self EXCEPT !.cdp_session = FALSE]
        paged == [detached EXCEPT !.page = FALSE, !.listening = FALSE]
        browsed == [paged EXCEPT !.browser = FALSE]
        stopped == [browsed EXCEPT !.playwright = FALSE]
    IN  IF detached.page /\ raised = "page.close"
        THEN [raised |-> TRUE, self |-> detached]
        ELSE IF paged.browser /\ raised = "browser.close"
        THEN [raised |-> TRUE, self |-> paged]
        ELSE IF browsed.playwright /\ raised = "playwright.stop"
        THEN [raised |-> TRUE, self |-> browsed]
        ELSE [raised |-> FALSE, self |-> stopped]

\* close without its except clause: the error of a release gets out.
close_reraises(self, raised) ==
    [exc |-> IF close_try(self, raised).raised THEN "Error" ELSE None,
     self |-> close_try(self, raised).self]

\* close: the page, the browser and the driver are released in turn; the
\* error of a release is logged and ends the clean-up.  [exc, self']
close(self, raised) ==
    [exc |-> None, self |-> close_try(self, raised).self]

-----------------------------------------------------------------------------
(* Actions of a recorder *)

StartChrome(r, url) ==
    LET res == start_chrome(recorders[r], url)
    IN  /\ recorders' = [recorders EXCEPT ![r] = res.self]
        /\ ret' = [op |-> "start_chrome", self |-> r, exc |-> res.exc]
        /\ UNCHANGED <<now, active_recorders, event_processor, files, arg>>

Connect(r, uuid4) ==
    LET res == connect(recorders[r], now, uuid4)
    IN  /\ recorders' = [recorders EXCEPT ![r] = res.self]
        /\ ret' = [op |-> "connect", self |-> r, exc |-> res.exc]
        /\ UNCHANGED <<now, active_recorders, event_processor, files, arg>>

\* A listener of recorder r runs and ends as res says.
Deliver(r, op, res) ==
    /\ recorders[r].listening
    /\ recorders' = [recorders EXCEPT ![r] = res.self]
    /\ ret' = [op |-> op, self |-> r, exc |-> res.exc]
    /\ UNCHANGED <<now, active_recorders, event_processor, files, arg>>

OnConsoleLog(r, msg) ==
    Deliver(r, "_on_console_log", _on_console_log(recorders[r], now, msg))

OnJsError(r, error) ==
    Deliver(r, "_on_js_error", _on_js_error(recorders[r], now, error))

OnPageLoad(r) ==
    Deliver(r, "_on_page_load", _on_page_load(recorders[r]))

OnDocumentUpdated(r) ==
    Deliver(r, "_on_document_updated",
            _on_document_updated(recorders[r], now, Nothing))

OnSetChildNodes(r, params) ==
    Deliver(r, "_on_set_child_nodes",
            _on_set_child_nodes(recorders[r], now, params))

OnAttributeModified(r, params) ==
    Deliver(r, "_on_attribute_modified",
            _on_attribute_modified(recorders[r], now, params))

OnCharacterDataModified(r, params) ==
    Deliver(r, "_on_character_data_modified",
            _on_character_data_modified(recorders[r], now, params))

HandleClickBinding(r, data) ==
    LET res == _handle_click_binding(recorders[r], now, "page", data)
    IN  /\ recorders[r].listening
        /\ recorders' = [recorders EXCEPT ![r] = res.self]
        /\ ret' = [op |-> "_handle_click_binding", self |-> r,
                   exc |-> res.exc, data |-> data]
        /\ UNCHANGED <<now, active_recorders, event_processor, files, arg>>

Stop(r) ==
    LET res == stop(recorders[r], now)
    IN  /\ ret' = [op |-> "stop", self |-> r, exc |-> res.exc,
                   value |-> res.value]
        /\ UNCHANGED <<now, recorders, active_recorders, event_processor,
                       files, arg>>

Close(r, raised) ==
    /\ recorders' = [recorders EXCEPT ![r] = close(@, raised).self]
    /\ ret' = [op |-> "close", self |-> r,
               exc |-> close(recorders[r], raised).exc]
    /\ UNCHANGED <<now, active_recorders, event_processor, files, arg>>

-----------------------------------------------------------------------------
(* start_chrome and connect, one step per await *)

\* The events connect attaches a listener to, in _setup_event_listeners.
AllListeners ==
    {"console", "pageerror", "load", "DOM.documentUpdated",
     "DOM.setChildNodes", "DOM.attributeModified",
     "DOM.characterDataModified"}

\* A recorder together with the point its coroutine is suspended at
\* ("idle": no call in flight), the url argument of the start_chrome in
\* flight, and the state of its page: whether the DOM domain is enabled,
\* the recordClick binding exposed, the events listened to, whether the
\* click tracker was evaluated, and the URL navigated to.
SteppedRecorder(headless) ==
    CDPRecorder(headless)
        @@ [pc |-> "idle", url |-> None, dom_enabled |-> FALSE,
            binding |-> FALSE, listeners |-> {}, tracker |-> FALSE,
            navigated |-> None]

\* The awaits of start_chrome in program order
start_chrome_awaits == <<"playwright.start", "chromium.launch", "new_page">>

\* The awaits of connect of a mutant that navigates before anything else.
connect_awaits_goto_first ==
    <<"goto", "new_cdp_session", "DOM.enable", "expose_binding", "evaluate",
      "return">>

\* The awaits of connect in program order; the listeners are attached
\* between expose_binding and evaluate, without an await of their own.
connect_awaits ==
    <<"new_cdp_session", "DOM.enable", "expose_binding", "evaluate", "goto",
      "return">>

\* The await that follows point pc in connect.
AfterAwait(pc) ==
    connect_awaits[1 + CHOOSE i \in 1..(Len(connect_awaits) - 1) :
                          connect_awaits[i] = pc]

\* connect reaching point: page.goto is awaited only with a pending URL.
Enter(self, point) ==
    IF point = "goto" /\ ~Truthy(self._pending_url)
    THEN AfterAwait("goto") ELSE point

\* Recorder r goes on after an await of connect that left it as self.
ConnectResumes(r, self) ==
    LET point == Enter(self, AfterAwait(self.pc))
    IN  IF point = "return"
        THEN /\ recorders' = [recorders EXCEPT ![r] =
                                [self EXCEPT !.pc = "idle"]]
             /\ ret' = [op |-> "connect", self |-> r, exc |-> None]
        ELSE /\ recorders' = [recorders EXCEPT ![r] =
                                [self EXCEPT !.pc = point]]
             /\ ret' = ret

\* start_chrome up to its first await
StartChromeBegins(r, url) ==
    LET self == recorders[r]
    IN  /\ self.pc = "idle"
        /\ IF start_chrome(self, url).exc # None \/ self.browser
           THEN /\ ret' = [op |-> "start_chrome", self |-> r, url |-> url,
                           exc |-> start_chrome(self, url).exc]
                /\ UNCHANGED recorders
           ELSE /\ recorders' = [recorders EXCEPT ![r] =
                       [self EXCEPT !.pc = start_chrome_awaits[1],
                                    !.url = url]]
                /\ ret' = [op |-> "await async_playwright().start",
                           self |-> r, url |-> url, exc |-> None]
        /\ UNCHANGED <<now, active_recorders, event_processor, files, arg>>

\* await async_playwright().start()
PlaywrightStarts(r) ==
    /\ recorders[r].pc = "playwright.start"
    /\ recorders' = [recorders EXCEPT ![r].playwright = TRUE,
                                      ![r].pc = "chromium.launch"]
    /\ UNCHANGED <<now, active_recorders, event_processor, files, arg, ret>>

\* await self.playwright.chromium.launch(...)
ChromiumLaunches(r) ==
    /\ recorders[r].pc = "chromium.launch"
    /\ recorders' = [recorders EXCEPT ![r].browser = TRUE,
                                      ![r].pc = "new_page"]
    /\ UNCHANGED <<now, active_recorders, event_processor, files, arg, ret>>

\* await self.browser.new_page(...), and the rest of start_chrome
NewPage(r) ==
    /\ recorders[r].pc = "new_page"
    /\ recorders' = [recorders EXCEPT ![r].page = TRUE,
                                      ![r]._pending_url = recorders[r].url,
                                      ![r].pc = "idle"]
    /\ ret' = [op |-> "start_chrome", self |-> r, exc |-> None]
    /\ UNCHANGED <<now, active_recorders, event_processor, files, arg>>

\* connect up to its first await
ConnectBegins(r, uuid4) ==
    LET self == recorders[r]
        begun == [self EXCEPT !.session_id = uuid4,
                              !.start_time = isoformat(now),
                              !.events = <<>>]
    IN  /\ self.pc = "idle"
        /\ IF ~self.page
           THEN /\ ret' = [op |-> "connect", self |-> r,
                           exc |-> "RuntimeError"]
                /\ UNCHANGED recorders
           ELSE /\ recorders' = [recorders EXCEPT ![r] =
                       [begun EXCEPT !.pc = Enter(begun, connect_awaits[1])]]
                /\ ret' = ret
        /\ UNCHANGED <<now, active_recorders, event_processor, files, arg>>

\* await self.page.context.new_cdp_session(self.page)
NewCdpSession(r) ==
    /\ recorders[r].pc = "new_cdp_session"
    /\ ConnectResumes(r, [recorders[r] EXCEPT !.cdp_session = TRUE])
    /\ UNCHANGED <<now, active_recorders, event_processor, files, arg>>

\* await self.cdp_session.send("DOM.enable")
DomEnable(r) ==
    /\ recorders[r].pc = "DOM.enable"
    /\ ConnectResumes(r, [recorders[r] EXCEPT !.dom_enabled = TRUE])
    /\ UNCHANGED <<now, active_recorders, event_processor, files, arg>>

\* await self.page.expose_binding(...), then the seven listeners, which
\* _setup_event_listeners attaches before its own await
ExposeBinding(r) ==
    /\ recorders[r].pc = "expose_binding"
    /\ ConnectResumes(r, [recorders[r] EXCEPT !.binding = TRUE,
                                              !.listeners = AllListeners,
                                              !.listening = TRUE])
    /\ UNCHANGED <<now, active_recorders, event_processor, files, arg>>

\* await self.page.evaluate(script): an error of it is logged, not raised
Evaluate(r) ==
    /\ recorders[r].pc = "evaluate"
    /\ \E ok \in BOOLEAN :
          ConnectResumes(r, [recorders[r] EXCEPT !.tracker = ok])
    /\ UNCHANGED <<now, active_recorders, event_processor, files, arg>>

\* await self.page.goto(self._pending_url), then _pending_url = None
Goto(r) ==
    /\ recorders[r].pc = "goto"
    /\ ConnectResumes(r, [recorders[r] EXCEPT
                            !.navigated = recorders[r]._pending_url,
                            !._pending_url = None])
    /\ UNCHANGED <<now, active_recorders, event_processor, files, arg>>

\* The awaited call of playwright raises: the coroutine ends there.
AwaitRaises(r) ==
    LET pc == recorders[r].pc
    IN  /\ pc \notin {"idle", "evaluate"}
        /\ recorders' = [recorders EXCEPT ![r].pc = "idle"]
        /\ ret' = [op |-> IF \E i \in 1..Len(start_chrome_awaits) :
                                start_chrome_awaits[i] = pc
                          THEN "start_chrome" ELSE "connect",
                   self |-> r, exc |-> "Error"]
        /\ UNCHANGED <<now, active_recorders, event_processor, files, arg>>

-----------------------------------------------------------------------------
(* cdp_recorder.py: the click tracker injected into the page (JavaScript) *)

\* A document is a function from node names to nodes.  A node has the
\* properties the script reads: nodeType, parentNode and childNodes (names),
\* tagName, id and className.  A property that a node does not have reads as
\* Undefined; parentNode of the document is None (null).
Undefined == "<undefined>"

\* '' + v
JsString(v) == IF v = Undefined THEN "undefined" ELSE v

\* if (v), for a string, null or undefined
JsTruthy(v) == v # Undefined /\ v # None /\ v # ""

DomNode(nodeType, parentNode, childNodes, tagName, id, className) ==
    [nodeType |-> nodeType, parentNode |-> parentNode,
     childNodes |-> childNodes, tagName |-> tagName, id |-> id,
     className |-> className]

RECURSIVE getXPath(_, _)
\* function getXPath(element)
getXPath(doc, element) ==
    LET node == doc[element]
        siblings == IF node.parentNode # None
                    THEN doc[node.parentNode].childNodes ELSE <<>>
    IN  IF node.id # ""
        THEN "//*[@id=\"" \o JsString(node.id) \o "\"]"
        ELSE IF element = "body" THEN "/html/body"
        ELSE IF \E i \in DOMAIN siblings : siblings[i] = element
        THEN LET i == CHOOSE k \in DOMAIN siblings : siblings[k] = element
                 ix == Cardinality({j \in 1..(i - 1) :
                          /\ doc[siblings[j]].nodeType = 1
                          /\ doc[siblings[j]].tagName = node.tagName})
                 parentPath == IF node.parentNode # None
                               THEN getXPath(doc, node.parentNode) ELSE ""
             IN  parentPath \o "/" \o lower(node.tagName)
                     \o "[" \o Digit(ix + 1) \o "]"
        ELSE ""

RECURSIVE SplitSpaces(_)
\* className.trim().split(/\s+/).filter(c => c)
SplitSpaces(s) ==
    IF s = "" THEN <<>>
    ELSE IF SubSeq(s, 1, 1) = " " THEN SplitSpaces(SubSeq(s, 2, Len(s)))
    ELSE LET n == CHOOSE k \in 1..Len(s) :
                    /\ \A j \in 1..k : SubSeq(s, j, j) # " "
                    /\ k = Len(s) \/ SubSeq(s, k + 1, k + 1) = " "
         IN  <<SubSeq(s, 1, n)>> \o SplitSpaces(SubSeq(s, n + 1, Len(s)))

RECURSIVE CssPath(_, _)
\* The while loop of getCSSSelector: path, from the outermost element down.
CssPath(doc, element) ==
    IF element = None THEN <<>>
    ELSE IF doc[element].nodeType # 1 THEN <<>>
    ELSE LET node == doc[element]
             classes == SplitSpaces(node.className)
             selector == lower(node.tagName) \o
                            (IF JsTruthy(node.className) /\ Len(classes) > 0
                             THEN "." \o Join(classes, ".") ELSE "")
         IN  CssPath(doc, node.parentNode) \o <<selector>>

\* getCSSSelector without the test of the id
getCSSSelector_path(doc, element) == Join(CssPath(doc, element), " > ")

\* function getCSSSelector(element)
getCSSSelector(doc, element) ==
    IF JsTruthy(doc[element].id) THEN "#" \o doc[element].id
    ELSE Join(CssPath(doc, element), " > ")

\* clickData of the click listener, for the properties modelled
clickData(doc, element) ==
    [tagName |-> doc[element].tagName,
     id |-> IF JsTruthy(doc[element].id) THEN doc[element].id ELSE None,
     className |-> IF JsTruthy(doc[element].className)
                   THEN doc[element].className ELSE None,
     xpath |-> getXPath(doc, element),
     cssSelector |-> getCSSSelector(doc, element)]

\* The click listener runs for a click on arg.target in arg.doc.
ClickListener ==
    /\ ret.op = "none"
    /\ ret' = [op |-> "click", data |-> clickData(arg.doc, arg.target)]
    /\ UNCHANGED <<now, recorders, active_recorders, event_processor, files,
                   arg>>

\* getXPath(arg.target) is evaluated in arg.doc.
GetXPath ==
    /\ ret.op = "none"
    /\ ret' = [op |-> "getXPath", value |-> getXPath(arg.doc, arg.target)]
    /\ UNCHANGED <<now, recorders, active_recorders, event_processor, files,
                   arg>>


-----------------------------------------------------------------------------
(* server.py: start_recording and stop_recording *)

\* A recorder of the server, together with the stop_recording calls that
\* are suspended in `await recorder.close()` on it, oldest first.
ServedRecorder(headless) == CDPRecorder(headless) @@ [stopping |-> <<>>]

\* The stop_recording calls that may be suspended on one recorder at once.
MaxSuspended == 2

\* The list handed to event_processor.process_events, as it is afterwards:
\* the processors write into the event dicts they are given, so the events
\* before the first one that raises are left processed.
events_after_processing(self, events) ==
    [i \in 1..Len(events) |->
        IF \E j \in 1..i : IsExc(process_event(self, events[j]))
        THEN events[i]
        ELSE process_event(self, events[i])]

\* start_recording at time t, whole: url and sensitive_selectors are what
\* arguments.get returns, uuid4 is the id connect draws.  No statement of
\* another call can observe the recorder before it is registered, and the
\* registration and the replacement of the processor follow the last await
\* without a break.  The awaited calls of the browser return; what a raising
\* one leaves behind is followed await by await in the start specification.
\* Returns [exc, session_id, launched, recorder, active_recorders,
\* event_processor].
start_recording(registry, processor, t, h, url, sensitive_selectors, uuid4) ==
    LET recorder == ServedRecorder(FALSE)
        started == start_chrome(recorder, url)
        connected == connect(started.self, t, uuid4)
    IN  IF started.exc # None
        THEN [exc |-> started.exc, session_id |-> None, launched |-> FALSE,
              recorder |-> recorder, active_recorders |-> registry,
              event_processor |-> processor]
        ELSE IF connected.exc # None
        THEN [exc |-> connected.exc, session_id |-> None, launched |-> TRUE,
              recorder |-> connected.self, active_recorders |-> registry,
              event_processor |-> processor]
        ELSE [exc |-> None, session_id |-> connected.value, launched |-> TRUE,
              recorder |-> connected.self,
              active_recorders |-> Put(registry, connected.value, h),
              event_processor |->
                 IF sensitive_selectors # <<>>
                 THEN EventProcessor(Some(sensitive_selectors))
                 ELSE processor]

\* The awaits of start_recording that may raise, in program order: those of
\* start_chrome and those of connect, but for page.evaluate, whose error
\* _inject_click_tracker catches.
StartAwaits ==
    start_chrome_awaits \o
        SelectSeq(connect_awaits, LAMBDA p : p \notin {"evaluate", "return"})

\* start_recording at time t when its await `raised` raises: the error
\* leaves start_recording, which has no try, before the registration.  The
\* recorder is left with what the awaits before that one assigned.  Returns
\* the record of start_recording; launched says that the recorder holds a
\* playwright driver or a browser.
start_recording_raises(registry, processor, t, h, url, uuid4, raised) ==
    LET recorder == ServedRecorder(FALSE)
        started == start_chrome(recorder, url)
        At(p) == CHOOSE i \in DOMAIN StartAwaits : StartAwaits[i] = p
        done(p) == At(p) < At(raised)
        left == IF raised \in Range(start_chrome_awaits)
                THEN [recorder EXCEPT
                         !.playwright = done("playwright.start"),
                         !.browser = done("chromium.launch")]
                ELSE [started.self EXCEPT
                         !.session_id = uuid4,
                         !.start_time = isoformat(t),
                         !.events = <<>>,
                         !.cdp_session = done("new_cdp_session"),
                         !.listening = done("expose_binding")]
    IN  IF started.exc # None
        THEN [exc |-> started.exc, session_id |-> None, launched |-> FALSE,
              recorder |-> recorder, active_recorders |-> registry,
              event_processor |-> processor]
        ELSE [exc |-> "Error", session_id |-> None,
              launched |-> left.playwright, recorder |-> left,
              active_recorders |-> registry, event_processor |-> processor]

\* stop_recording at time t up to `await recorder.close()`; session_id is
\* what arguments.get returns.  Returns [suspended, exc, recorder, self,
\* dir, file_path, count]: either the call raised before the try block, or
\* it is suspended with the outcome it will return or raise.
stop_recording(registry, recs, processor, dir, t, session_id) ==
    LET recorder == Get(registry, session_id, None)
        self == recs[recorder]
        session_data == stop(self, t)
        processed_events == process_events(processor, session_data.value.events)
        saved == save_recording(dir, t,
                    [session_data.value EXCEPT !.events = processed_events.value],
                    None)
        raised == [suspended |-> FALSE, exc |-> "ValueError",
                   recorder |-> None, file_path |-> None, count |-> 0]
    IN  IF session_id_check(session_id) # None THEN raised
        ELSE IF recorder = None THEN raised
        ELSE IF session_data.exc # None
        THEN [suspended |-> TRUE, exc |-> session_data.exc,
              recorder |-> recorder, self |-> self, dir |-> dir,
              file_path |-> None, count |-> 0]
        ELSE IF IsExc(processed_events)
        THEN [suspended |-> TRUE, exc |-> processed_events.exc,
              recorder |-> recorder,
              self |-> [self EXCEPT !.events =
                            events_after_processing(processor, @)],
              dir |-> dir, file_path |-> None, count |-> 0]
        ELSE [suspended |-> TRUE, exc |-> saved.exc, recorder |-> recorder,
              self |-> [self EXCEPT !.events = processed_events.value],
              dir |-> saved.dir, file_path |-> saved.path,
              count |-> Len(processed_events.value)]

\* del active_recorders[session_id], when the id is there
Del(registry, session_id) ==
    [k \in (DOMAIN registry) \ {session_id} |-> registry[k]]

\* The finally blocks of a stop_recording that leaves the registry as it is.
stop_recording_finally_keeps(self, registry, frame, raised) ==
    [exc |-> close(self, raised).exc, self |-> close(self, raised).self,
     active_recorders |-> registry]

\* The cleanup of a stop_recording without finally blocks: it is skipped
\* when the try block raised.
stop_recording_finally_skipped(self, registry, frame, raised) ==
    IF frame.exc = None
    THEN [exc |-> close(self, raised).exc, self |-> close(self, raised).self,
          active_recorders |-> Del(registry, frame.session_id)]
    ELSE [exc |-> None, self |-> self, active_recorders |-> registry]

\* The finally blocks of stop_recording for a suspended call (frame), whole:
\* recorder.close() and the removal of the session id, which an error of
\* close would not prevent but would replace the outcome of the try block
\* with.  Returns [exc, self, active_recorders], exc being the error the
\* finally blocks raise themselves.
stop_recording_finally(self, registry, frame, raised) ==
    [exc |-> close(self, raised).exc, self |-> close(self, raised).self,
     active_recorders |-> Del(registry, frame.session_id)]

\* seq without its i-th element
Without(seq, i) == SubSeq(seq, 1, i - 1) \o SubSeq(seq, i + 1, Len(seq))

\* arguments.get(k) as an optional argument: Nothing when the key is
\* absent.
Optional(arguments, k) ==
    IF k \in DOMAIN arguments THEN Some(arguments[k]) ELSE Nothing

\* A mutant of get_recording that takes a limit for a filter by its truth
\* value.
get_recording_limit_truthy(dir, arguments, first) ==
    LET session_id == Get(arguments, "session_id", None)
        event_types == Optional(arguments, "event_types")
        limit == Optional(arguments, "limit")
        offset == Get(arguments, "offset", 0)
        from_timestamp == Get(arguments, "from_timestamp", None)
        to_timestamp == Get(arguments, "to_timestamp", None)
        has_filters ==
            \/ event_types.some /\ event_types.v # <<>>
            \/ limit.some /\ limit.v # 0
            \/ Truthy(from_timestamp)
            \/ Truthy(to_timestamp)
            \/ offset > 0
        recording ==
            load_filtered_recording(dir, session_id, first, event_types,
                limit, offset, from_timestamp, to_timestamp, has_filters)
    IN  IF session_id_check(session_id) # None
        THEN [exc |-> "ValueError", has_filters |-> FALSE, value |-> <<>>]
        ELSE IF ~recording.found
        THEN [exc |-> "ValueError", has_filters |-> has_filters,
              value |-> <<>>]
        ELSE [exc |-> None, has_filters |-> has_filters,
              value |-> recording.value]

\* get_recording, given the file that glob lists first: the recording that
\* the text returned serializes, or the error raised.  Returns [exc,
\* has_filters, value].
get_recording(dir, arguments, first) ==
    LET session_id == Get(arguments, "session_id", None)
        event_types == Optional(arguments, "event_types")
        limit == Optional(arguments, "limit")
        offset == Get(arguments, "offset", 0)
        from_timestamp == Get(arguments, "from_timestamp", None)
        to_timestamp == Get(arguments, "to_timestamp", None)
        has_filters ==
            \/ event_types.some /\ event_types.v # <<>>
            \/ limit.some
            \/ Truthy(from_timestamp)
            \/ Truthy(to_timestamp)
            \/ offset > 0
        recording ==
            load_filtered_recording(dir, session_id, first, event_types,
                limit, offset, from_timestamp, to_timestamp, has_filters)
    IN  IF session_id_check(session_id) # None
        THEN [exc |-> "ValueError", has_filters |-> FALSE, value |-> <<>>]
        ELSE IF ~recording.found
        THEN [exc |-> "ValueError", has_filters |-> has_filters,
              value |-> <<>>]
        ELSE [exc |-> None, has_filters |-> has_filters,
              value |-> recording.value]

-----------------------------------------------------------------------------
(* Actions of the server *)

\* The recorders the server may create, in the order it creates them.
ServerHandles == <<"r1", "r2">>

StartRecording(url, sensitive_selectors, uuid4) ==
    /\ Cardinality(DOMAIN recorders) < Len(ServerHandles)
    /\ \A r \in DOMAIN recorders : recorders[r].session_id # uuid4
    /\ \E h \in {ServerHandles[Cardinality(DOMAIN recorders) + 1]} :
       \E res \in {start_recording(active_recorders, event_processor, now, h,
                                   url, sensitive_selectors, uuid4)} :
        /\ recorders' = IF res.launched THEN Put(recorders, h, res.recorder)
                        ELSE recorders
        /\ active_recorders' = res.active_recorders
        /\ event_processor' = res.event_processor
        /\ ret' = [op |-> "start_recording", exc |-> res.exc,
                   session_id |-> res.session_id,
                   recorder |-> IF res.launched THEN h ELSE None]
        /\ UNCHANGED <<now, files, arg>>

\* start_recording is called and its await `raised` raises; page.goto is
\* awaited only with a URL.
StartRecordingRaises(url, uuid4, raised) ==
    /\ Cardinality(DOMAIN recorders) < Len(ServerHandles)
    /\ \A r \in DOMAIN recorders : recorders[r].session_id # uuid4
    /\ raised = "goto" => Truthy(url)
    /\ \E h \in {ServerHandles[Cardinality(DOMAIN recorders) + 1]} :
       \E res \in {start_recording_raises(active_recorders, event_processor,
                                          now, h, url, uuid4, raised)} :
        /\ res.exc = "Error"
        /\ recorders' = IF res.launched THEN Put(recorders, h, res.recorder)
                        ELSE recorders
        /\ active_recorders' = res.active_recorders
        /\ event_processor' = res.event_processor
        /\ ret' = [op |-> "start_recording", exc |-> res.exc,
                   session_id |-> res.session_id,
                   recorder |-> IF res.launched THEN h ELSE None,
                   raised |-> raised]
        /\ UNCHANGED <<now, files, arg>>

\* stop_recording is called and runs until it raises or awaits the close.
StopRecording(session_id) ==
    \E res \in {stop_recording(active_recorders, recorders, event_processor,
                               files, now, session_id)} :
        IF ~res.suspended
        THEN /\ ret' = [op |-> "stop_recording", session_id |-> session_id,
                        recorder |-> None, exc |-> res.exc,
                        file_path |-> None, count |-> 0]
             /\ UNCHANGED <<now, recorders, active_recorders, event_processor,
                            files, arg>>
        ELSE /\ Len(recorders[res.recorder].stopping) < MaxSuspended
             /\ recorders' =
                   [recorders EXCEPT ![res.recorder] =
                       [res.self EXCEPT !.stopping =
                           Append(@, [session_id |-> session_id,
                                      exc |-> res.exc,
                                      file_path |-> res.file_path,
                                      processed_events |->
                                         IF res.exc = None
                                         THEN res.self.events ELSE <<>>,
                                      count |-> res.count])]]
             /\ files' = res.dir
             /\ ret' = [op |-> "await recorder.close", session_id |-> session_id,
                        recorder |-> res.recorder, exc |-> res.exc,
                        file_path |-> res.file_path, count |-> res.count]
             /\ UNCHANGED <<now, active_recorders, event_processor, arg>>

\* get_recording with the arguments in arg
GetRecording ==
    /\ ret.op = "none"
    /\ \E first \in FirstMatches(files, Get(arg, "session_id", None)) :
       \E res \in {get_recording(files, arg, first)} :
          ret' = [op |-> "get_recording", first |-> first, exc |-> res.exc,
                  has_filters |-> res.has_filters, value |-> res.value]
    /\ UNCHANGED <<now, recorders, active_recorders, event_processor, files,
                   arg>>

\* recorder.close() is over for the i-th call suspended on recorder h: the
\* finally blocks run and the call returns or lets an error out.
StopRecordingResumes(h, i, raised) ==
    /\ i \in 1..Len(recorders[h].stopping)
    /\ \E frame \in {recorders[h].stopping[i]} :
       \E res \in {stop_recording_finally(recorders[h], active_recorders,
                                          frame, raised)} :
        /\ recorders' = [recorders EXCEPT ![h] =
                            [res.self EXCEPT !.stopping = Without(@, i)]]
        /\ active_recorders' = res.active_recorders
        /\ ret' = IF res.exc # None
                  THEN [op |-> "stop_recording",
                        session_id |-> frame.session_id, recorder |-> h,
                        exc |-> res.exc, file_path |-> None, count |-> 0]
                  ELSE [op |-> "stop_recording",
                        session_id |-> frame.session_id, recorder |-> h,
                        exc |-> frame.exc, file_path |-> frame.file_path,
                        count |-> frame.count]
        /\ UNCHANGED <<now, event_processor, files, arg>>

-----------------------------------------------------------------------------
(* Inputs of the masking specification *)

AttrNames ==
    {"value", "Value", "VALUE", "password", "data-password",
     "confirmPassword", "user_secret", "SECRET", "values", "class", "type",
     "passwor", ""}

AttrValues == {"hunter2", "", None}

\* dom_attribute_modified payloads: those _on_attribute_modified builds
\* (three keys, name and value possibly None) and two with a key missing.
AttrModifiedData ==
    {[node_id |-> 7, name |-> n, value |-> v] :
        n \in AttrNames \cup {None}, v \in AttrValues}
    \cup {[node_id |-> 7, name |-> n] : n \in {"password", "class"}}
    \cup {[node_id |-> 7, value |-> "hunter2"]}

AttributeLists ==
    { <<"type", "password", "value", "hunter2">>,
      <<"type", "PASSWORD", "name", "pw", "value", "">>,
      <<"name", "user_password", "value", "hunter2", "class", "big">>,
      <<"id", "new-password", "confirmPassword", "abc">>,
      <<"name", "passwd">>,
      <<"name", "api_secret", "value", "s3cr3t">>,
      <<"id", "csrf", "name", "csrf_token", "value", "tok", "disabled">>,
      <<"type", "text", "name", "user", "value", "bob">>,
      <<"data-sel", "input[type=password]", "value", "hunter2", "Value", "">>,
      <<"data-sel", "input[name*='secret']", "x-secret", "k", "value">>,
      <<"card", "number", "value", "4111", "password", "", "class", "c">>,
      <<>> }

NodeNames == {"INPUT", "input", "Input", "DIV"}

NodeSamples ==
    {[nodeId |-> 3, nodeName |-> nn, attributes |-> al] :
        nn \in NodeNames, al \in AttributeLists}
    \cup {[nodeId |-> 3, nodeName |-> "INPUT"], NonMapping("text")}

SetChildNodesData ==
    {[parent_id |-> 1, nodes |-> <<n>>] : n \in NodeSamples}
    \cup {[parent_id |-> 1, nodes |-> <<n, m>>] :
            n \in {x \in NodeSamples : IsDict(x) /\ x.nodeName = "INPUT"},
            m \in {[nodeId |-> 4, nodeName |-> "input",
                    attributes |-> <<"type", "password", "value", "pw">>],
                   NonMapping("text")}}
    \cup {[parent_id |-> 1, nodes |-> <<>>]}

MaskEvents ==
    {Event("dom_attribute_modified", "T00", d) : d \in AttrModifiedData}
    \cup {Event("dom_set_child_nodes", "T00", d) : d \in SetChildNodesData}
    \cup {Event("dom_character_data_modified", "T00",
                [node_id |-> 7, character_data |-> "hunter2"]),
          Event("console_log", "T00", [level |-> "log", args |-> <<"hi">>]),
          Event("document_updated", "T00", <<>>),
          Event("click", "T00", [tagName |-> "INPUT", id |-> "password"]),
          Event("custom", "T00", [name |-> "password", value |-> "hunter2"])}

\* sensitive_selectors as start_recording may pass them on
SelectorArgs == {Nothing, Some(<<Literal("card")>>)}

-----------------------------------------------------------------------------
(* The masking specification: process_event on one event *)

InitMask ==
    /\ now = 0
    /\ recorders = <<>>
    /\ active_recorders = <<>>
    /\ event_processor = EventProcessor(Nothing)
    /\ files = <<>>
    /\ arg \in {[self |-> EventProcessor(sel), event |-> e] :
                    sel \in SelectorArgs, e \in MaskEvents}
    /\ ret = Idle

ProcessEvent ==
    /\ ret.op = "none"
    /\ ret' = [op |-> "process_event",
               value |-> process_event(arg.self, arg.event)]
    /\ UNCHANGED <<now, recorders, active_recorders, event_processor, files, arg>>

NextMask == ProcessEvent

SpecMask == InitMask /\ [][NextMask]_vars

-----------------------------------------------------------------------------
(* The reprocessing specification: process_events on one list of events,   *)
(* and once more on the list it returned                                   *)

\* The events that follow the first one in the longer lists: an attribute
\* that is masked, a password field among new nodes, and an attribute
\* whose name is None.
ReprocessSecond ==
    {Event("dom_attribute_modified", "T01",
           [node_id |-> 8, name |-> "password", value |-> "hunter2"]),
     Event("dom_set_child_nodes", "T01",
           [parent_id |-> 2,
            nodes |-> <<[nodeId |-> 4, nodeName |-> "input",
                         attributes |-> <<"type", "password", "card", "1",
                                          "value", "pw">>]>>]),
     Event("dom_attribute_modified", "T01",
           [node_id |-> 8, name |-> None, value |-> "x"])}

ReprocessLists ==
    {<<e>> : e \in MaskEvents}
    \cup {<<e, f>> : e \in MaskEvents, f \in ReprocessSecond}

\* Selectors that match a value before it is masked, or the token after.
ReprocessSelectorArgs ==
    SelectorArgs \cup {Some(<<Literal("hunter")>>), Some(<<Literal("masked")>>)}

InitReprocess ==
    /\ now = 0
    /\ recorders = <<>>
    /\ active_recorders = <<>>
    /\ event_processor = EventProcessor(Nothing)
    /\ files = <<>>
    /\ arg \in {[self |-> EventProcessor(sel), events |-> evs] :
                    sel \in ReprocessSelectorArgs, evs \in ReprocessLists}
    /\ ret = Idle

\* process_events(arg.events), a first time and then on the list the first
\* call returned.  The processors write into the dicts of the list they
\* are given, so after the call the list holds the processed events: all
\* of them, or those before the one that raised.
ProcessEvents ==
    /\ \/ ret.op = "none"
       \/ ret.op = "process_events" /\ ~ret.again /\ ~IsExc(ret.result)
    /\ \E res \in {process_events(arg.self, arg.events)} :
          /\ ret' = [op |-> "process_events", again |-> ret.op # "none",
                     events |-> arg.events, result |-> res]
          /\ arg' = [arg EXCEPT !.events =
                        [i \in 1..Len(arg.events) |->
                            IF \A j \in 1..i :
                                  ~IsExc(process_event(arg.self, arg.events[j]))
                            THEN process_event(arg.self, arg.events[i])
                            ELSE arg.events[i]]]
    /\ UNCHANGED <<now, recorders, active_recorders, event_processor, files>>

NextReprocess == ProcessEvents

SpecReprocess == InitReprocess /\ [][NextReprocess]_vars


-----------------------------------------------------------------------------
(* The validation specification: one session id through either check *)

ID_A == "aaaaaaaa-aaaa-4aaa-8aaa-aaaaaaaaaaaa"

ID_B == "0b1c2d3e-4f56-4789-9abc-def012345678"

BadChars == {"g", "A", "/", ".", "*", "?", " ", "_", "\n"}

\* s with the character at position pos replaced by c
Replace(s, pos, c) == SubSeq(s, 1, pos - 1) \o c \o SubSeq(s, pos + 1, Len(s))

CandidateIds ==
    {ID_A, ID_B}
    \cup {Replace(id, pos, c) : id \in {ID_A}, pos \in 1..36, c \in BadChars}
    \cup {id \o x : id \in {ID_A, ID_B}, x \in {"\n", "a", "\n\n", "\na", "/"}}
    \cup {x \o id : id \in {ID_A, ID_B}, x \in {"\n", "/", "a"}}
    \cup {SubSeq(ID_A, 1, n) : n \in 0..35}
    \cup {"not-a-uuid", "../../../../../../../../../etc/passwd",
          "************************************"}

InitValidate ==
    /\ now = 0
    /\ recorders = <<>>
    /\ active_recorders = <<>>
    /\ event_processor = EventProcessor(Nothing)
    /\ files = <<>>
    /\ arg \in CandidateIds
    /\ ret = Idle

ValidateSessionId ==
    /\ ret.op = "none"
    /\ ret' = [op |-> "_validate_session_id",
               exc |-> _validate_session_id(arg)]
    /\ UNCHANGED <<now, recorders, active_recorders, event_processor, files, arg>>

SessionIdCheck ==
    /\ ret.op = "none"
    /\ ret' = [op |-> "session_id_check", exc |-> session_id_check(arg)]
    /\ UNCHANGED <<now, recorders, active_recorders, event_processor, files, arg>>

NextValidate == ValidateSessionId \/ SessionIdCheck

SpecValidate == InitValidate /\ [][NextValidate]_vars

-----------------------------------------------------------------------------
(* The store specification: the operations of RecordingStorage *)

StoreIds == {ID_A, ID_B, ID_A \o "\n", "not-a-uuid"}

Click(t) == Event("click", isoformat(t), [tagName |-> "BUTTON", id |-> "go"])

ConsoleLog(t) ==
    Event("console_log", isoformat(t), [level |-> "log", args |-> <<"hi">>])

StoreEvents ==
    { <<Click(0)>>,
      <<ConsoleLog(0), Click(1)>>,
      <<ConsoleLog(0), ConsoleLog(0), Click(1), Click(1)>> }

StoreSessionData ==
    {[session_id |-> id, start_time |-> isoformat(0),
      end_time |-> isoformat(1), events |-> evs] :
        id \in {ID_A}, evs \in StoreEvents}
    \cup {[session_id |-> id, start_time |-> isoformat(0),
           end_time |-> isoformat(1), events |-> <<Click(0)>>] :
            id \in (StoreIds \ {ID_A}) \cup {""}}
    \cup {[start_time |-> isoformat(0), end_time |-> isoformat(1),
           events |-> <<Click(0)>>]}

\* (event_types, limit, offset, from_timestamp, to_timestamp, include_events)
StoreFilters ==
    { <<Nothing, Nothing, 0, None, None, FALSE>>,
      <<Some(<<"click">>), Some(1), 0, None, None, TRUE>> }

InitStore ==
    /\ now = 0
    /\ recorders = <<>>
    /\ active_recorders = <<>>
    /\ event_processor = EventProcessor(Nothing)
    /\ files = <<>>
    /\ arg = None
    /\ ret = Idle

NextStore ==
    \/ Tick
    \/ \E session_data \in StoreSessionData : SaveRecording(session_data, None)
    \/ \E session_id \in StoreIds : LoadRecording(session_id)
    \/ \E session_id \in StoreIds, f \in StoreFilters :
          LoadFilteredRecording(session_id, f[1], f[2], f[3], f[4], f[5], f[6])
    \/ \E session_id \in StoreIds : DeleteRecording(session_id)

SpecStore == InitStore /\ [][NextStore]_vars

-----------------------------------------------------------------------------
(* The listing specification: sessions saved with and without a start     *)
(* time, small and large, and list_recordings over them                    *)

ListSession(id, start, evs) ==
    [session_id |-> id, end_time |-> isoformat(MaxClock), events |-> evs]
        @@ start

ListSessionData ==
    {ListSession(ID_A, <<>>, <<Click(0)>>),
     ListSession(ID_A, [start_time |-> isoformat(0)], <<Click(0)>>),
     ListSession(ID_A, [start_time |-> isoformat(1)], <<Click(0)>>),
     ListSession(ID_B, [start_time |-> isoformat(0)], <<Click(0)>>),
     ListSession(ID_B, [start_time |-> isoformat(1)],
                 <<Click(0), Click(0), Click(1)>>)}

InitList ==
    /\ now = 0
    /\ recorders = <<>>
    /\ active_recorders = <<>>
    /\ event_processor = EventProcessor(Nothing)
    /\ files = <<>>
    /\ arg = None
    /\ ret = Idle

NextList ==
    \/ Tick
    \/ \E session_data \in ListSessionData : SaveRecording(session_data, None)
    \/ ListRecordings

SpecList == InitList /\ [][NextList]_vars

-----------------------------------------------------------------------------
(* The filter specification: load_filtered_recording on one stored session *)

MaxStored == 3

FilterTypes == {"click", "console_log"}

FilterEvents ==
    {Event(ty, isoformat(t), <<>>) : ty \in FilterTypes, t \in 0..MaxClock}
    \cup {[timestamp |-> isoformat(0), data |-> <<>>]}

\* The event lists a recorder can have produced, and a few without a type.
FilterEventSeqs ==
    UNION {
        {evs \in [1..n -> FilterEvents] :
            \A i \in 1..(n - 1) :
                StrLessEq(evs[i].timestamp, evs[i + 1].timestamp)}
        : n \in 0..MaxStored}

FilterEventTypes ==
    {Nothing, Some(<<>>), Some(<<"click">>), Some(<<"js_error", "console_log">>)}

FilterLimits == {Nothing, Some(-1), Some(0), Some(1), Some(2)}

FilterOffsets == {-1, 0, 1, 2}

FilterFrom == {None, "", isoformat(1)}

FilterTo == {None, "", isoformat(1)}

StoredFile(events) ==
    save_recording(<<>>, 0,
        [session_id |-> ID_A, start_time |-> isoformat(0),
         end_time |-> isoformat(MaxClock), events |-> events],
        "https://example.test/").dir

InitFilter ==
    /\ now = 0
    /\ recorders = <<>>
    /\ active_recorders = <<>>
    /\ event_processor = EventProcessor(Nothing)
    /\ files \in {StoredFile(evs) : evs \in FilterEventSeqs}
    /\ arg = None
    /\ ret = Idle

\* One call on the stored session.
NextFilter ==
    /\ ret.op = "none"
    /\ \E event_types \in FilterEventTypes, limit \in FilterLimits,
          offset \in FilterOffsets, from_timestamp \in FilterFrom,
          to_timestamp \in FilterTo, include_events \in BOOLEAN :
            LoadFilteredRecording(ID_A, event_types, limit, offset,
                                  from_timestamp, to_timestamp, include_events)

SpecFilter == InitFilter /\ [][NextFilter]_vars

-----------------------------------------------------------------------------
(* The paging specification: load_filtered_recording on one stored         *)
(* session, page after page.  arg holds the filters and the page size.     *)

MaxPageSize == 3

PagingArguments ==
    {[event_types |-> event_types, from_timestamp |-> from_timestamp,
      to_timestamp |-> to_timestamp, limit |-> limit] :
        event_types \in FilterEventTypes, from_timestamp \in FilterFrom,
        to_timestamp \in FilterTo, limit \in 0..MaxPageSize}

InitPages ==
    /\ now = 0
    /\ recorders = <<>>
    /\ active_recorders = <<>>
    /\ event_processor = EventProcessor(Nothing)
    /\ files \in {StoredFile(evs) : evs \in FilterEventSeqs}
    /\ arg \in PagingArguments
    /\ ret = Idle

\* The caller asks for the page at offset 0 and, as long as the page it
\* got has events, for the page that follows it.
NextPages ==
    /\ IF ret.op = "none" THEN TRUE
       ELSE ret.exc = None /\ ret.value.events # <<>>
    /\ \E offset \in {IF ret.op = "none" THEN 0 ELSE ret.offset + arg.limit} :
          LoadFilteredRecording(ID_A, arg.event_types, Some(arg.limit),
                                offset, arg.from_timestamp, arg.to_timestamp,
                                TRUE)

SpecPages == InitPages /\ [][NextPages]_vars


-----------------------------------------------------------------------------
(* The capture specification: one recorder and the signals of its page.  *)
(* The releases of close return; one that raises is followed in the       *)
(* session specification.                                                  *)

Handles == {"r1"}

CaptureUrls ==
    {None, "https://example.test/", "file:///etc/passwd",
     "FILE:///etc/passwd", "javascript:alert(1)"}

ConsoleMessages ==
    {[type |-> "log", text |-> "hi", args |-> Some(<<"hi">>),
      location |-> [url |-> "https://example.test/", lineNumber |-> 3]],
     [type |-> "error", text |-> "bad", args |-> Nothing,
      location |-> <<>>]}

JsErrors == {[message |-> "boom", stack |-> "at f"], [message |-> "boom"]}

SetChildNodesParams ==
    {Some([parentId |-> 1,
           nodes |-> <<[nodeId |-> 3, nodeName |-> "INPUT",
                        attributes |-> <<"type", "password",
                                         "value", "hunter2">>]>>])}

AttributeModifiedParams ==
    {Some([nodeId |-> 7, name |-> "value", value |-> "hunter2"]), Nothing}

CharacterDataModifiedParams ==
    {Some([nodeId |-> 7, characterData |-> "hunter2"])}

InitCapture ==
    /\ now = 0
    /\ recorders = [r \in Handles |-> CDPRecorder(TRUE)]
    /\ active_recorders = <<>>
    /\ event_processor = EventProcessor(Nothing)
    /\ files = <<>>
    /\ arg = None
    /\ ret = Idle

NextCapture ==
    \/ Tick
    \/ \E r \in Handles, url \in CaptureUrls : StartChrome(r, url)
    \/ \E r \in Handles, uuid4 \in {ID_A, ID_B} : Connect(r, uuid4)
    \/ \E r \in Handles, msg \in ConsoleMessages : OnConsoleLog(r, msg)
    \/ \E r \in Handles, error \in JsErrors : OnJsError(r, error)
    \/ \E r \in Handles : OnPageLoad(r)
    \/ \E r \in Handles : OnDocumentUpdated(r)
    \/ \E r \in Handles, params \in SetChildNodesParams :
          OnSetChildNodes(r, params)
    \/ \E r \in Handles, params \in AttributeModifiedParams :
          OnAttributeModified(r, params)
    \/ \E r \in Handles, params \in CharacterDataModifiedParams :
          OnCharacterDataModified(r, params)
    \/ \E r \in Handles, data \in ClickTexts : HandleClickBinding(r, data)
    \/ \E r \in Handles : Stop(r)
    \/ \E r \in Handles : Close(r, None)

SpecCapture == InitCapture /\ [][NextCapture]_vars

-----------------------------------------------------------------------------
(* The start specification: start_chrome and connect await by await *)

InitStart ==
    /\ now = 0
    /\ recorders = [r \in Handles |-> SteppedRecorder(TRUE)]
    /\ active_recorders = <<>>
    /\ event_processor = EventProcessor(Nothing)
    /\ files = <<>>
    /\ arg = None
    /\ ret = Idle

NextStart ==
    \/ Tick
    \/ \E r \in Handles, url \in CaptureUrls : StartChromeBegins(r, url)
    \/ \E r \in Handles : PlaywrightStarts(r)
    \/ \E r \in Handles : ChromiumLaunches(r)
    \/ \E r \in Handles : NewPage(r)
    \/ \E r \in Handles, uuid4 \in {ID_A, ID_B} : ConnectBegins(r, uuid4)
    \/ \E r \in Handles : NewCdpSession(r)
    \/ \E r \in Handles : DomEnable(r)
    \/ \E r \in Handles : ExposeBinding(r)
    \/ \E r \in Handles : Evaluate(r)
    \/ \E r \in Handles : Goto(r)
    \/ \E r \in Handles : AwaitRaises(r)

SpecStart == InitStart /\ [][NextStart]_vars

-----------------------------------------------------------------------------
(* The server specification: sessions started and stopped over the         *)
(* transport, and the signals of their pages.  The clock stands still:     *)
(* the stamps of events and files are the concern of the capture and the   *)
(* store specifications.                                                   *)

ServerUrls == {None, "http://a/", "file:///x"}

ServerSelectors == {<<>>, <<Literal("card")>>}

\* The ids uuid4 draws, in the order it draws them: it never repeats one,
\* and which id a session gets plays no role.
ServerUuids == <<ID_A, ID_B>>

NextUuid ==
    {ServerUuids[i] :
        i \in {Cardinality(DOMAIN recorders) + 1} \cap DOMAIN ServerUuids}

ServerSessionIds == {None, "not-a-uuid", ID_A, ID_B}

ServerSetChildNodesParams ==
    {Some([parentId |-> 1,
           nodes |-> <<>>])}

ServerAttributeModifiedParams ==
    {Some([nodeId |-> 7, name |-> "value", value |-> "hunter2"]), Nothing}

InitServer ==
    /\ now = 0
    /\ recorders = <<>>
    /\ active_recorders = <<>>
    /\ event_processor = EventProcessor(Nothing)
    /\ files = <<>>
    /\ arg = None
    /\ ret = Idle

NextServer ==
    \/ \E url \in ServerUrls, sensitive_selectors \in ServerSelectors,
          uuid4 \in NextUuid :
          StartRecording(url, sensitive_selectors, uuid4)
    \/ \E session_id \in ServerSessionIds : StopRecording(session_id)
    \/ \E h \in DOMAIN recorders, i \in 1..MaxSuspended :
          StopRecordingResumes(h, i, None)
    \/ \E r \in DOMAIN recorders, params \in ServerSetChildNodesParams :
          OnSetChildNodes(r, params)
    \/ \E r \in DOMAIN recorders, params \in ServerAttributeModifiedParams :
          OnAttributeModified(r, params)

SpecServer == InitServer /\ [][NextServer]_vars

-----------------------------------------------------------------------------
(* The session specification: one session from its start over the          *)
(* transport to its stops, with the clock running, the signals of its page *)
(* and releases of the browser that raise.  arg holds the arguments of the *)
(* start.                                                                  *)

SessionArguments == {<<>>, [url |-> "http://a/"]}

InitSession ==
    /\ now = 0
    /\ recorders = <<>>
    /\ active_recorders = <<>>
    /\ event_processor = EventProcessor(Nothing)
    /\ files = <<>>
    /\ arg \in SessionArguments
    /\ ret = Idle

NextSession ==
    \/ Tick
    \/ /\ recorders = <<>>
       /\ StartRecording(Get(arg, "url", None),
                         Get(arg, "sensitive_selectors", <<>>), ID_A)
    \/ StopRecording(ID_A)
    \/ \E h \in DOMAIN recorders, i \in 1..MaxSuspended,
          raised \in {None} \cup Range(CloseAwaits) :
          StopRecordingResumes(h, i, raised)
    \/ \E r \in DOMAIN recorders : OnDocumentUpdated(r)
    \/ \E r \in DOMAIN recorders :
          OnAttributeModified(r,
              Some([nodeId |-> 7, name |-> "value", value |-> "hunter2"]))

SpecSession == InitSession /\ [][NextSession]_vars

-----------------------------------------------------------------------------
(* The launch specification: sessions started and stopped over the         *)
(* transport, with awaits of the start that raise                          *)

LaunchUrls == {None, "http://a/"}

InitLaunch ==
    /\ now = 0
    /\ recorders = <<>>
    /\ active_recorders = <<>>
    /\ event_processor = EventProcessor(Nothing)
    /\ files = <<>>
    /\ arg = None
    /\ ret = Idle

NextLaunch ==
    \/ \E url \in LaunchUrls, uuid4 \in NextUuid :
          StartRecording(url, <<>>, uuid4)
    \/ \E url \in LaunchUrls, uuid4 \in NextUuid,
          raised \in Range(StartAwaits) :
          StartRecordingRaises(url, uuid4, raised)
    \/ \E session_id \in {ID_A, ID_B} : StopRecording(session_id)
    \/ \E h \in DOMAIN recorders, i \in 1..MaxSuspended :
          StopRecordingResumes(h, i, None)

SpecLaunch == InitLaunch /\ [][NextLaunch]_vars


-----------------------------------------------------------------------------
(* The retrieval specification: get_recording over the transport on one    *)
(* stored session                                                          *)

GetStored ==
    {<<>>, <<Click(0), ConsoleLog(1)>>, <<ConsoleLog(0), Click(1), Click(2)>>}

\* The dicts of arguments: each filter absent or present, the values those
\* the tool's schema admits.
GetArguments ==
    {[session_id |-> ID_A] @@ event_types @@ limit @@ offset @@ from @@ to :
        event_types \in {<<>>, [event_types |-> <<>>],
                         [event_types |-> <<"click">>]},
        limit \in {<<>>, [limit |-> 0], [limit |-> 1]},
        offset \in {<<>>, [offset |-> -1], [offset |-> 0], [offset |-> 1]},
        from \in {<<>>, [from_timestamp |-> ""],
                  [from_timestamp |-> isoformat(1)]},
        to \in {<<>>, [to_timestamp |-> ""],
                [to_timestamp |-> isoformat(1)]}}
    \cup {<<>>, [session_id |-> ""], [session_id |-> "not-a-uuid"],
          [session_id |-> ID_B], [session_id |-> ID_B, limit |-> 1]}

InitGet ==
    /\ now = 0
    /\ recorders = <<>>
    /\ active_recorders = <<>>
    /\ event_processor = EventProcessor(Nothing)
    /\ files \in {StoredFile(evs) : evs \in GetStored}
    /\ arg \in GetArguments
    /\ ret = Idle

NextGet == GetRecording

SpecGet == InitGet /\ [][NextGet]_vars

-----------------------------------------------------------------------------
(* The tracker specification: one click on one element of one document *)

\* The siblings of its own tag that may precede the target.
MaxSiblings == 2

TrackerTags == {"BUTTON", "A"}

TrackerIds == {"", "go", "0"}

TrackerClassNames == {"", "btn", " btn  primary "}

\* document > html > body > div (wrapper) > text, `before` elements of the
\* target's tag, a span, the target
TrackerPage(tag, id, className, before, wrapper_id) ==
    LET same == [i \in 1..before |-> "s" \o Digit(i)]
        names == {"document", "html", "body", "wrapper", "text", "span",
                  "target"} \cup {same[i] : i \in 1..before}
    IN  [n \in names |->
            CASE n = "document" ->
                    DomNode(9, None, <<"html">>, Undefined, Undefined,
                            Undefined)
              [] n = "html" -> DomNode(1, "document", <<"body">>, "HTML", "", "")
              [] n = "body" -> DomNode(1, "html", <<"wrapper">>, "BODY", "", "")
              [] n = "wrapper" ->
                    DomNode(1, "body", <<"text">> \o same \o <<"span", "target">>,
                            "DIV", wrapper_id, "box")
              [] n = "text" ->
                    DomNode(3, "wrapper", <<>>, Undefined, Undefined, Undefined)
              [] n = "span" -> DomNode(1, "wrapper", <<>>, "SPAN", "", "")
              [] n = "target" -> DomNode(1, "wrapper", <<>>, tag, id, className)
              [] OTHER -> DomNode(1, "wrapper", <<>>, tag, "", "")]

TrackerPages ==
    {TrackerPage(tag, id, className, before, wrapper_id) :
        tag \in TrackerTags, id \in TrackerIds,
        className \in TrackerClassNames, before \in 0..MaxSiblings,
        wrapper_id \in {"", "main"}}

\* event.target is an element of the document.
TrackerClicks ==
    UNION {{[doc |-> doc, target |-> n] :
                n \in {m \in DOMAIN doc : doc[m].nodeType = 1}} :
            doc \in TrackerPages}

InitTracker ==
    /\ now = 0
    /\ recorders = <<>>
    /\ active_recorders = <<>>
    /\ event_processor = EventProcessor(Nothing)
    /\ files = <<>>
    /\ arg \in TrackerClicks
    /\ ret = Idle

NextTracker == ClickListener

SpecTracker == InitTracker /\ [][NextTracker]_vars

-----------------------------------------------------------------------------
(* The xpath specification: getXPath on one element of one document *)

\* The page of the tracker specification and, beside it, a subtree that is
\* not attached to the document: a div with two elements of the target's
\* tag.
XPathPage(tag, id, before, wrapper_id, detached_id) ==
    TrackerPage(tag, id, "", before, wrapper_id) @@
        [n \in {"detached", "o1", "orphan"} |->
            IF n = "detached"
            THEN DomNode(1, None, <<"o1", "orphan">>, "DIV", detached_id, "")
            ELSE DomNode(1, "detached", <<>>, tag, "", "")]

XPathPages ==
    {XPathPage(tag, id, before, wrapper_id, detached_id) :
        tag \in TrackerTags, id \in TrackerIds, before \in 0..MaxSiblings,
        wrapper_id \in {"", "main"}, detached_id \in {"", "main"}}

XPathInputs ==
    UNION {{[doc |-> doc, target |-> n] :
                n \in {m \in DOMAIN doc : doc[m].nodeType = 1}} :
            doc \in XPathPages}

InitXPath ==
    /\ now = 0
    /\ recorders = <<>>
    /\ active_recorders = <<>>
    /\ event_processor = EventProcessor(Nothing)
    /\ files = <<>>
    /\ arg \in XPathInputs
    /\ ret = Idle

NextXPath == GetXPath

SpecXPath == InitXPath /\ [][NextXPath]_vars


-----------------------------------------------------------------------------
(* The analysis specification: analyze_events on one list of events *)

\* The events of a list given to analyze_events.
MaxAnalyzed == 3

\* Events as the recorder records them and process_events leaves them in a
\* saved recording; the page may call the click binding with any JSON text,
\* such as null.
AnalyzedEvents ==
    {ConsoleLog(0),
     Event("js_error", isoformat(0), [message |-> "boom", stack |-> ""]),
     Click(0),
     Event("click", isoformat(0), NonMapping(None)),
     Event("document_updated", isoformat(0), <<>>),
     Event("dom_attribute_modified", isoformat(0),
           [node_id |-> 7, name |-> "value", value |-> MASKED,
            _masked |-> TRUE]),
     Event("dom_character_data_modified", isoformat(0),
           [node_id |-> 7, character_data |-> "hi"])}

AnalyzedLists ==
    UNION {[1..n -> AnalyzedEvents] : n \in 0..MaxAnalyzed}

InitAnalyze ==
    /\ now = 0
    /\ recorders = <<>>
    /\ active_recorders = <<>>
    /\ event_processor = EventProcessor(Nothing)
    /\ files = <<>>
    /\ arg \in {[self |-> EventProcessor(Nothing), events |-> evs] :
                    evs \in AnalyzedLists}
    /\ ret = Idle

NextAnalyze == AnalyzeEvents

SpecAnalyze == InitAnalyze /\ [][NextAnalyze]_vars

-----------------------------------------------------------------------------
(* Claims about the masking engine (checked under SpecMask) *)

\* The name rule as the specification words it.
NameIsSecret(n) ==
    LET l == lower(n)
    IN  l = "value" \/ Contains(l, "password") \/ Contains(l, "secret")

Processed(type) ==
    /\ ret.op = "process_event"
    /\ arg.event.type = type
    /\ ~IsExc(ret.value)

\* A dom_attribute_modified event with a string name has been processed.
AttrProcessed ==
    /\ ret.op = "process_event"
    /\ arg.event.type = "dom_attribute_modified"
    /\ Get(arg.event.data, "name", "") # None

\* C2 as claimed: a dom_attribute_modified event whose name is "value" or
\* contains "password"/"secret" gets value = "***MASKED***" and _masked =
\* TRUE whatever the original value (empty and absent included); any other
\* name leaves the value unchanged and adds no _masked key.
C2_AsClaimed ==
    AttrProcessed =>
        LET din == arg.event.data
            dout == ret.value.data
        IN  IF NameIsSecret(Get(din, "name", ""))
            THEN dout.value = MASKED /\ dout._masked = TRUE
            ELSE /\ "_masked" \notin DOMAIN dout
                 /\ ("value" \in DOMAIN din) = ("value" \in DOMAIN dout)
                 /\ "value" \in DOMAIN din => dout.value = din.value

\* C2 as amended: for such a name the event is marked _masked = TRUE and
\* its value is "***MASKED***" when the original value is a non-empty
\* string; an empty value stays "", a None value stays None and an absent
\* value becomes "".  Any other name leaves the event as it was.
C2_AttributeMasking ==
    AttrProcessed =>
        LET din == arg.event.data
            dout == ret.value.data
            v == Get(din, "value", "")
        IN  IF NameIsSecret(Get(din, "name", ""))
            THEN /\ dout._masked = TRUE
                 /\ dout.value = (IF v = "" \/ v = None THEN v ELSE MASKED)
                 /\ DOMAIN dout = DOMAIN din \cup {"value", "_masked"}
                 /\ \A k \in DOMAIN din \ {"value"} : dout[k] = din[k]
            ELSE ret.value = arg.event

C2_Witness ==
    /\ AttrProcessed
    /\ Get(arg.event.data, "name", "") = "confirmPassword"
    /\ Get(arg.event.data, "value", "") = "hunter2"
    /\ ret.value.data.value = MASKED
    /\ ret.value.data._masked = TRUE

\* The secret fields C3 names: type password, or a name/id whose value
\* contains password, passwd, secret or token.
IsSecretField(attributes) ==
    \E p \in 1..Len(attributes) :
        /\ p % 2 = 0
        /\ \/ /\ lower(attributes[p - 1]) = "type"
              /\ lower(attributes[p]) = "password"
           \/ /\ lower(attributes[p - 1]) \in {"name", "id"}
              /\ \E w \in {"password", "passwd", "secret", "token"} :
                    Contains(lower(attributes[p]), w)

\* C3: with the default patterns every input node whose attribute tokens
\* mark it as a secret field is classified sensitive, so that it is marked
\* and its non-empty "value" tokens are redacted.
C3_SecretInputsDetected ==
    (Processed("dom_set_child_nodes") /\ arg.self = EventProcessor(Nothing)) =>
        \A i \in 1..Len(arg.event.data.nodes) :
            LET nin == arg.event.data.nodes[i]
                nout == ret.value.data.nodes[i]
            IN  (/\ IsDict(nin)
                 /\ lower(Get(nin, "nodeName", "")) = "input"
                 /\ IsSecretField(Get(nin, "attributes", <<>>)))
                => /\ _is_sensitive_field(arg.self, nin)
                   /\ "_masked" \in DOMAIN nout
                   /\ \A p \in 1..Len(nin.attributes) :
                        (p % 2 = 0 /\ nin.attributes[p - 1] = "value"
                            /\ nin.attributes[p] # "")
                        => nout.attributes[p] = MASKED

\* The nodes of the processed snapshot that the detector classified.
SensitiveNodes ==
    {i \in 1..Len(arg.event.data.nodes) :
        _is_sensitive_field(arg.self, arg.event.data.nodes[i])}

\* C4 as claimed: in a node classified sensitive every value token whose
\* name token is "value" or contains "password"/"secret" equals the
\* redaction token, every other token is the input token, the length is
\* kept and the node carries _masked = TRUE.
C4_AsClaimed ==
    Processed("dom_set_child_nodes") =>
        \A i \in SensitiveNodes :
            LET ain == arg.event.data.nodes[i].attributes
                nout == ret.value.data.nodes[i]
            IN  /\ nout._masked = TRUE
                /\ Len(nout.attributes) = Len(ain)
                /\ \A p \in 1..Len(ain) :
                      nout.attributes[p] =
                          (IF p % 2 = 0 /\ NameIsSecret(ain[p - 1])
                           THEN MASKED ELSE ain[p])

\* C4 as amended: the same, except that an empty value token under such a
\* name stays empty; only non-empty ones become the redaction token.
C4_NodeMasking ==
    Processed("dom_set_child_nodes") =>
        /\ Len(ret.value.data.nodes) = Len(arg.event.data.nodes)
        /\ \A i \in 1..Len(arg.event.data.nodes) :
            LET nin == arg.event.data.nodes[i]
                nout == ret.value.data.nodes[i]
            IN  IF i \in SensitiveNodes
                THEN /\ nout._masked = TRUE
                     /\ Len(nout.attributes) = Len(nin.attributes)
                     /\ \A p \in 1..Len(nin.attributes) :
                          nout.attributes[p] =
                              (IF /\ p % 2 = 0
                                  /\ NameIsSecret(nin.attributes[p - 1])
                                  /\ nin.attributes[p] # ""
                               THEN MASKED ELSE nin.attributes[p])
                     /\ \A k \in DOMAIN nin \ {"attributes"} : nout[k] = nin[k]
                ELSE nout = nin

C4_Witness ==
    /\ Processed("dom_set_child_nodes")
    /\ \E i \in SensitiveNodes :
          LET ain == arg.event.data.nodes[i].attributes
              aout == ret.value.data.nodes[i].attributes
          IN  /\ \E p \in 1..Len(ain) :
                    p % 2 = 0 /\ ain[p] = "hunter2" /\ aout[p] = MASKED
              /\ \E p \in 1..Len(ain) :
                    p % 2 = 0 /\ NameIsSecret(ain[p - 1]) /\ aout[p] = ""
              /\ \E p \in 1..Len(ain) :
                    ~NameIsSecret(ain[p]) /\ ain[p] # "" /\ aout[p] = ain[p]

-----------------------------------------------------------------------------
(* Claims about the store (checked under SpecStore, SpecValidate and      *)
(* SpecFilter)                                                            *)

\* The session id shape of the specification: 36 characters, each one of
\* a-f, 0-9 or '-'.
CanonicalShape(session_id) ==
    /\ Len(session_id) = 36
    /\ \A i \in 1..36 : SubSeq(session_id, i, i) \in HexHyphen

\* A step that is a call of the store, as opposed to a tick of the clock.
StoreCall == <<files, ret>>' # <<files, ret>>

\* C5: a load that follows a successful save of the same session id
\* returns a document whose events are the events passed to that save.
C5_SaveLoadRoundTrip ==
    [][(/\ ret.op = "save_recording"
        /\ ret.exc = None
        /\ ret'.op = "load_recording"
        /\ ret'.session_id = ret.session_id)
       => (/\ ret'.exc = None
           /\ ret'.found
           /\ ret'.value.events = ret.events)]_vars

\* C6: an operation given a session id that is not of the canonical shape
\* raises the validation error before any access to the file system, and
\* leaves the directory and the registry as they were.
C6_InvalidIdRejected ==
    [][(/\ StoreCall
        /\ ret'.op \in {"save_recording", "load_recording",
                        "load_filtered_recording", "delete_recording"}
        /\ ~(ret'.session_id # None /\ CanonicalShape(ret'.session_id)))
       => (/\ ret'.exc = "ValueError"
           /\ ~ret'.fs
           /\ files' = files
           /\ active_recorders' = active_recorders)]_vars

\* C7: a session id that either check accepts has exactly 36 characters,
\* all of them among a-f, 0-9 and '-'.
C7_OnlyCanonicalAccepted ==
    (ret.op \in {"_validate_session_id", "session_id_check"} /\ ret.exc = None)
        => CanonicalShape(arg)

\* C10: a successful save never writes to a path that already holds a
\* file, so two saves of a session id leave two files.
C10_SaveNeverOverwrites ==
    [][(StoreCall /\ ret'.op = "save_recording" /\ ret'.exc = None)
       => (/\ ret'.path \notin DOMAIN files
           /\ Cardinality(DOMAIN files') = Cardinality(DOMAIN files) + 1)]_vars

\* A completed call of load_filtered_recording that found the session.
FilterCall ==
    /\ ret.op = "load_filtered_recording"
    /\ ret.exc = None
    /\ ret.found

\* The events of the file the call read.
StoredEvents == files[ret.first].doc.events

Min(a, b) == IF a <= b THEN a ELSE b

Max(a, b) == IF a >= b THEN a ELSE b

\* The list C8 describes.  A filter counts as supplied the way the
\* transport layer counts it: a non-empty list of types, a non-empty
\* timestamp, a positive offset, any limit.
ClaimedEvents ==
    LET kept ==
            SelectSeq(StoredEvents,
                LAMBDA e :
                    /\ (ret.event_types.some /\ ret.event_types.v # <<>>)
                        => \E i \in 1..Len(ret.event_types.v) :
                              Get(e, "type", None) = ret.event_types.v[i]
                    /\ Truthy(ret.from_timestamp)
                        => StrLessEq(ret.from_timestamp, Get(e, "timestamp", ""))
                    /\ Truthy(ret.to_timestamp)
                        => StrLessEq(Get(e, "timestamp", ""), ret.to_timestamp))
        skip == Max(ret.offset, 0)
        rest == Len(kept) - skip
        n == Max(IF ret.limit.some THEN Min(ret.limit.v, rest) ELSE rest, 0)
    IN  [i \in 1..n |-> kept[i + skip]]

\* The filters supplied to the call.
SuppliedFilters ==
    (IF ret.event_types.some /\ ret.event_types.v # <<>>
        THEN {"event_types"} ELSE {})
    \cup (IF Truthy(ret.from_timestamp) THEN {"from_timestamp"} ELSE {})
    \cup (IF Truthy(ret.to_timestamp) THEN {"to_timestamp"} ELSE {})
    \cup (IF ret.offset > 0 THEN {"offset"} ELSE {})
    \cup (IF ret.limit.some THEN {"limit"} ELSE {})

\* C8: with include_events the returned list is the stored sequence
\* filtered by type, then from_timestamp, then to_timestamp, without its
\* first offset events and cut to its first limit events, in the stored
\* order; filters_applied names exactly the supplied filters.
C8_FilterPipeline ==
    (FilterCall /\ ret.include_events) =>
        LET applied == ret.value.metadata.filters_applied
        IN  /\ ret.value.events = ClaimedEvents
            /\ applied.some = (SuppliedFilters # {})
            /\ applied.some =>
                /\ DOMAIN applied.v = SuppliedFilters
                /\ "event_types" \in SuppliedFilters
                    => applied.v["event_types"] = ret.event_types.v
                /\ "from_timestamp" \in SuppliedFilters
                    => applied.v["from_timestamp"] = ret.from_timestamp
                /\ "to_timestamp" \in SuppliedFilters
                    => applied.v["to_timestamp"] = ret.to_timestamp
                /\ "offset" \in SuppliedFilters
                    => applied.v["offset"] = ret.offset
                /\ "limit" \in SuppliedFilters
                    => applied.v["limit"] = ret.limit.v

\* The type an event is counted under.
CountedType(e) == Get(e, "type", "unknown")

RECURSIVE SumOver(_, _)
SumOver(f, S) ==
    IF S = {} THEN 0
    ELSE LET k == CHOOSE x \in S : TRUE
         IN  f[k] + SumOver(f, S \ {k})

\* C9: whatever the filters, total_events is the number of stored events,
\* event_type_breakdown counts the stored events by type (so its counts
\* add up to total_events), and returned_events is the length of the
\* returned list.
C9_CountsAndBreakdown ==
    FilterCall =>
        LET md == ret.value.metadata
            bd == md.event_type_breakdown
            n == Len(StoredEvents)
        IN  /\ md.total_events = n
            /\ DOMAIN bd = {CountedType(StoredEvents[i]) : i \in 1..n}
            /\ \A ty \in DOMAIN bd :
                  bd[ty] = Cardinality({i \in 1..n :
                                          CountedType(StoredEvents[i]) = ty})
            /\ SumOver(bd, DOMAIN bd) = md.total_events
            /\ ret.include_events
                => md.returned_events = Len(ret.value.events)

C9_Witness ==
    /\ FilterCall
    /\ ret.include_events
    /\ ret.event_types.some
    /\ ret.offset > 0
    /\ ret.value.metadata.total_events = MaxStored
    /\ ret.value.metadata.returned_events = 1
    /\ \E ty \in DOMAIN ret.value.metadata.event_type_breakdown :
          ret.value.metadata.event_type_breakdown[ty] = 2
    /\ "unknown" \in DOMAIN ret.value.metadata.event_type_breakdown

-----------------------------------------------------------------------------
(* Claims about the recorder (checked under SpecCapture) *)

IngestOps ==
    {"_on_console_log", "_on_js_error", "_on_document_updated",
     "_on_set_child_nodes", "_on_attribute_modified",
     "_on_character_data_modified", "_handle_click_binding"}

\* A step in which a listener of recorder r called _add_event: a click
\* text that is not JSON never gets that far.
Ingestion(r) ==
    /\ <<recorders, ret>>' # <<recorders, ret>>
    /\ ret'.op \in IngestOps
    /\ ret'.self = r
    /\ ~(ret'.op = "_handle_click_binding" /\ IsExc(json_loads(ret'.data)))

\* C1: the event list of a recorder never holds more than max_events
\* events; an ingestion on a full list raises the limit error and leaves
\* the list as it was, and an ingestion on a list that is not full
\* succeeds and appends one event.
C1_EventCap ==
    [][\A r \in DOMAIN recorders :
          LET before == recorders[r].events
              after == recorders'[r].events
          IN  /\ Len(after) <= recorders'[r].max_events
              /\ Ingestion(r) =>
                    IF Len(before) >= recorders[r].max_events
                    THEN ret'.exc = "RuntimeError" /\ after = before
                    ELSE /\ ret'.exc = None
                         /\ Len(after) = Len(before) + 1
                         /\ SubSeq(after, 1, Len(before)) = before]_vars

C1_Witness ==
    /\ ret.op \in IngestOps
    /\ ret.exc = "RuntimeError"
    /\ Len(recorders[ret.self].events) = max_events
    /\ recorders[ret.self].max_events = max_events

-----------------------------------------------------------------------------
(* Further claims about the store (checked under SpecStore) *)

\* C11: load_recording returns None when the directory holds no file of
\* the session id, and otherwise the content of the file of that id that
\* was saved last.
C11_LoadReturnsNewest ==
    (ret.op = "load_recording" /\ ret.exc = None) =>
        LET matching == glob(files, ret.session_id)
        IN  IF matching = {} THEN ~ret.found
            ELSE /\ ret.found
                 /\ \A f \in matching :
                       StrLessEq(files[f].doc.metadata.saved_at,
                                 ret.value.metadata.saved_at)

-----------------------------------------------------------------------------
(* Claims about start_chrome and connect (checked under SpecStart and     *)
(* SpecCapture)                                                           *)

\* C12: the page navigates only in connect, at its goto, to the pending
\* URL, and only once the DOM domain is enabled, the click binding is
\* exposed and all seven listeners are attached; no step of start_chrome
\* navigates.
C12_ListenersBeforeNavigation ==
    [][\A r \in DOMAIN recorders :
          recorders'[r].navigated # recorders[r].navigated
            => /\ recorders[r].pc = "goto"
               /\ recorders[r].dom_enabled
               /\ recorders[r].binding
               /\ recorders[r].listeners = AllListeners
               /\ recorders'[r].navigated = recorders[r]._pending_url]_vars

C12_Witness ==
    \E r \in DOMAIN recorders :
        /\ ret.op = "connect"
        /\ ret.exc = None
        /\ recorders[r].pc = "idle"
        /\ recorders[r].navigated = "https://example.test/"
        /\ recorders[r].listeners = AllListeners
        /\ recorders[r]._pending_url = None

\* C13: start_chrome and connect on a recorder that is already capturing
\* raise nothing and leave its session id, its start time, its events and
\* its browser as they were.
C13_RestartIsNoOp ==
    [][\A r \in DOMAIN recorders :
          (/\ recorders[r].listening
           /\ <<recorders, ret>>' # <<recorders, ret>>
           /\ ret'.op \in {"start_chrome", "connect"}
           /\ ret'.self = r)
          => /\ ret'.exc = None
             /\ recorders'[r].session_id = recorders[r].session_id
             /\ recorders'[r].start_time = recorders[r].start_time
             /\ recorders'[r].events = recorders[r].events
             /\ recorders'[r].browser = recorders[r].browser]_vars

-----------------------------------------------------------------------------
(* Claims about the server (checked under SpecServer) *)

\* This step is a call of stop_recording: it raised at once, or it ran up
\* to the close of the recorder.
StopCalled ==
    \/ ret'.op = "await recorder.close"
    \/ ret'.op = "stop_recording" /\ ret'.recorder = None

\* This step ends a stop_recording that found its recorder.
StopEnded == ret'.op = "stop_recording" /\ ret'.recorder # None

\* No session with this id is active: the registry has none, or a stop of
\* it has run to its end and closed the recorder.
NotActive(session_id) ==
    \/ session_id \notin DOMAIN active_recorders
    \/ \E r \in DOMAIN recorders :
          recorders[r].session_id = session_id /\ ~recorders[r].page

\* C14: a stop_recording for a session that is not active (never started,
\* or stopped once already) raises an error, writes no file and leaves the
\* registry of active sessions as it was.
C14_InactiveStopFails ==
    [][(StopCalled /\ NotActive(ret'.session_id))
          => /\ ret'.op = "stop_recording"
             /\ ret'.exc = "ValueError"
             /\ files' = files
             /\ active_recorders' = active_recorders]_vars

\* A second stop of a session has just failed: its first stop wrote the
\* only file there is for it.
C14_Witness ==
    /\ ret.op = "stop_recording"
    /\ ret.recorder = None
    /\ ret.exc = "ValueError"
    /\ \E r \in DOMAIN recorders :
          recorders[r].session_id = ret.session_id /\ ~recorders[r].page
    /\ Cardinality(glob(files, ret.session_id)) = 1

\* C15: whenever a stop_recording that found its recorder returns or lets
\* its error out, whether masking and storage succeeded or raised, the
\* recorder has been closed and the session id is no longer in the
\* registry of active sessions.
C15_CleanupAlwaysRuns ==
    [][StopEnded
          => /\ ret'.session_id \notin DOMAIN active_recorders'
             /\ ~recorders'[ret'.recorder].page
             /\ ~recorders'[ret'.recorder].browser
             /\ ~recorders'[ret'.recorder].playwright]_vars

\* A stop whose save raised has just ended, after the stop of another
\* session whose masking raised: both recorders are closed, no session is
\* registered and no file was written.
C15_Witness ==
    /\ ret.op = "stop_recording"
    /\ ret.recorder # None
    /\ ret.exc = "ValueError"
    /\ active_recorders = <<>>
    /\ files = <<>>
    /\ \A r \in DOMAIN recorders : ~recorders[r].page /\ ~recorders[r].browser
    /\ \E r \in DOMAIN recorders :
          /\ r # ret.recorder
          /\ \E i \in DOMAIN recorders[r].events :
                recorders[r].events[i].type = "dom_attribute_modified"

\* C16: while a session A is active, a step of start_recording or
\* stop_recording for another session changes neither the pattern set that
\* will mask A's events at A's stop nor A's event buffer.
C16_SessionsIndependent ==
    [][\A a \in (DOMAIN active_recorders) \cap (DOMAIN active_recorders') :
          (/\ ret'.op \in {"start_recording", "await recorder.close",
                            "stop_recording"}
           /\ ret'.session_id # a)
          => /\ event_processor' = event_processor
             /\ recorders'[active_recorders[a]].events
                   = recorders[active_recorders[a]].events]_vars

\* C18: once a listener of a session's recorder has raised because the cap
\* is reached, a stop_recording of that session does not succeed: it raises
\* and writes no file.
C18_OverflowAbandonsSave ==
    [][(/\ ret.op \in IngestOps
        /\ ret.exc = "RuntimeError"
        /\ ret'.op = "await recorder.close"
        /\ ret'.recorder = ret.self)
          => /\ ret'.exc # None
             /\ files' = files]_vars

-----------------------------------------------------------------------------
(* Further claims about start_chrome (checked under SpecStart) *)

\* The scheme of url is not empty and is none of http, https and data.
ForbiddenScheme(url) ==
    /\ Truthy(url)
    /\ urlparse_scheme(url) # ""
    /\ urlparse_scheme(url) \notin {"http", "https", "data"}

\* The recorder is as constructed: nothing launched, no URL pending.
Unlaunched(self) ==
    /\ self.pc = "idle"
    /\ ~self.playwright
    /\ ~self.browser
    /\ ~self.page
    /\ self._pending_url = None

\* C17: start_chrome on a recorder that has launched nothing, with a URL
\* whose scheme is not empty and none of http, https and data, raises
\* ValueError before it awaits any launch and leaves the recorder as it was:
\* no playwright, browser, page or pending URL.
C17_ForbiddenSchemeRejected ==
    [][\A r \in DOMAIN recorders :
          (/\ Unlaunched(recorders[r])
           /\ ret'.op \in {"start_chrome", "await async_playwright().start"}
           /\ ret'.self = r
           /\ ForbiddenScheme(Get(ret', "url", None)))
          => /\ ret'.op = "start_chrome"
             /\ ret'.exc = "ValueError"
             /\ recorders'[r] = recorders[r]
             /\ Unlaunched(recorders'[r])]_vars

\* start_chrome("file:///etc/passwd") has just raised on a fresh recorder.
C17_Witness ==
    \E r \in DOMAIN recorders :
        /\ ret.op = "start_chrome"
        /\ ret.self = r
        /\ ret.url = "file:///etc/passwd"
        /\ ret.exc = "ValueError"
        /\ Unlaunched(recorders[r])
-----------------------------------------------------------------------------
(* Claims about the click tracker (checked under SpecTracker) *)

\* C19: for a click on an element whose id is not empty, the payload's
\* cssSelector is '#' followed by the id and its xpath is //*[@id="<id>"],
\* whatever the element's tag, classes, ancestors and place among its
\* siblings.
C19_IdLocators ==
    (ret.op = "click" /\ arg.doc[arg.target].id # "")
        => /\ ret.data.cssSelector = "#" \o arg.doc[arg.target].id
           /\ ret.data.xpath = "//*[@id=\"" \o arg.doc[arg.target].id \o "\"]"

\* A click on <button id="go" class=" btn  primary "> that follows two
\* buttons inside <div id="main">.
C19_Witness ==
    /\ ret.op = "click"
    /\ arg.target = "target"
    /\ arg.doc["target"].tagName = "BUTTON"
    /\ arg.doc["target"].id = "go"
    /\ arg.doc["target"].className = " btn  primary "
    /\ arg.doc["wrapper"].id = "main"
    /\ Len(arg.doc["wrapper"].childNodes) = 5
    /\ ret.data.cssSelector = "#go"
    /\ ret.data.xpath = "//*[@id=\"go\"]"
-----------------------------------------------------------------------------
(* Claims about the analysis (checked under SpecAnalyze) *)

\* The number of events of the list for which P holds.
CountOf(events, P(_)) == Cardinality({i \in DOMAIN events : P(events[i])})

IsConsoleLog(e) == e.type = "console_log"

IsJsError(e) == e.type = "js_error"

IsClick(e) == e.type = "click"

IsDomMutation(e) == StartsWith(e.type, "dom_")

IsMasked(e) == IsDict(e.data) /\ Get(e.data, "_masked", FALSE) = TRUE

\* C20: for every list of events, analyze_events returns a summary in which
\* total_events is the length of the list, the counts of event_types add up
\* to it, console_logs, js_errors and clicks count the events of exactly
\* those types, dom_mutations counts the events whose type starts with
\* "dom_" (hence not document_updated), and masked_events counts the events
\* whose payload carries a true _masked marker.
C20_AnalyzeCounts ==
    ret.op = "analyze_events" =>
        /\ ret.exc = None
        /\ ret.value.total_events = Len(arg.events)
        /\ SumOver(ret.value.event_types, DOMAIN ret.value.event_types)
              = ret.value.total_events
        /\ ret.value.console_logs = CountOf(arg.events, IsConsoleLog)
        /\ ret.value.js_errors = CountOf(arg.events, IsJsError)
        /\ ret.value.clicks = CountOf(arg.events, IsClick)
        /\ ret.value.dom_mutations = CountOf(arg.events, IsDomMutation)
        /\ ret.value.masked_events = CountOf(arg.events, IsMasked)

-----------------------------------------------------------------------------
(* Claims about the listing (checked under SpecList) *)

\* The start time of an entry as the claim orders it: none is the empty
\* string.
StartKey(x) == IF x.start_time = None THEN "" ELSE x.start_time

Readable(dir) == {f \in DOMAIN dir : dir[f].bytes <= LIST_MAX_FILE_SIZE}

\* C21: list_recordings never fails on the documents save_recording
\* writes; it returns one entry for every file within the reading
\* ceiling, with that document's session id, start time and event count,
\* and the entries are in descending order of start time, an entry
\* without a start time counting as the empty string and so coming after
\* every entry that has one.
C21_ListSortedByStart ==
    ret.op = "list_recordings" =>
        /\ ret.exc = None
        /\ Len(ret.value) = Cardinality(Readable(files))
        /\ {ret.value[i].filepath : i \in 1..Len(ret.value)} = Readable(files)
        /\ \A i \in 1..Len(ret.value) :
              LET doc == files[ret.value[i].filepath].doc
              IN  /\ ret.value[i].session_id = doc.session_id
                  /\ ret.value[i].start_time = doc.start_time
                  /\ ret.value[i].event_count = Len(doc.events)
        /\ \A i, j \in 1..Len(ret.value) :
              i < j => StrLessEq(StartKey(ret.value[j]), StartKey(ret.value[i]))

-----------------------------------------------------------------------------
(* Claims about deleting and about rejected saves (checked under          *)
(* SpecStore)                                                              *)

\* The files that hold a document of the session id.
FilesOf(dir, session_id) ==
    {f \in DOMAIN dir : dir[f].doc.session_id = session_id}

\* C22: a delete_recording that returns removes every file of the session
\* id and leaves every file of another session id as it was; it returns
\* True exactly when there was a file of the id; after it load_recording
\* of the id returns None and another delete_recording of the id returns
\* False.
C22_DeleteRemovesSession ==
    [][(ret'.op = "delete_recording" /\ now' = now /\ ret'.exc = None) =>
          LET session_id == ret'.session_id
          IN  /\ DOMAIN files' = (DOMAIN files) \ FilesOf(files, session_id)
              /\ \A f \in DOMAIN files' : files'[f] = files[f]
              /\ ret'.value = (FilesOf(files, session_id) # {})
              /\ \A first \in FirstMatches(files', session_id) :
                    /\ load_recording(files', session_id, first).exc = None
                    /\ ~load_recording(files', session_id, first).found
              /\ delete_recording(files', session_id).exc = None
              /\ ~delete_recording(files', session_id).value]_vars

C22_Witness ==
    /\ ret.op = "delete_recording"
    /\ ret.exc = None
    /\ ret.value
    /\ ret.session_id = ID_A
    /\ FilesOf(files, ID_A) = {}
    /\ Cardinality(FilesOf(files, ID_B)) = 2

\* C28: a save_recording that raises (no session id, a session id of the
\* wrong shape, or a document above the ceiling) leaves the directory as
\* it was, no file created or overwritten, so that load_recording of any
\* id returns afterwards what it returned before; list_recordings reads
\* nothing but the directory.
C28_RejectedSaveWritesNothing ==
    [][(ret'.op = "save_recording" /\ now' = now /\ ret'.exc # None) =>
          /\ DOMAIN files' = DOMAIN files
          /\ \A f \in DOMAIN files : files'[f] = files[f]
          /\ \A session_id \in {ID_A, ID_B} :
                /\ FirstMatches(files', session_id)
                      = FirstMatches(files, session_id)
                /\ \A first \in FirstMatches(files, session_id) :
                      load_recording(files', session_id, first)
                         = load_recording(files, session_id, first)]_vars

\* A save of a document above the ceiling has just raised while the file
\* it would have written exists with another content.
C28_Witness ==
    /\ ret.op = "save_recording"
    /\ ret.exc = "ValueError"
    /\ ret.session_id = ID_A
    /\ Len(ret.events) = 4
    /\ (ID_A \o "_" \o strftime(now) \o ".json") \in DOMAIN files
    /\ Cardinality(DOMAIN files) = 3

-----------------------------------------------------------------------------
(* Further claims about the masking engine (checked under SpecMask) *)

\* C23: process_event returns an event, raising nothing, for every event
\* the listeners of the recorder can append (a dom_attribute_modified
\* event whose name is None and node lists with entries that are no
\* mappings included), and an event of a kind it does not recognize is
\* returned as it is.
C23_ProcessTotal ==
    ret.op = "process_event" =>
        /\ ~IsExc(ret.value)
        /\ arg.event.type \notin {"dom_attribute_modified",
                                  "dom_set_child_nodes",
                                  "dom_character_data_modified"}
              => ret.value = arg.event

\* The token stands in the processed node at a place where the node did
\* not have it.
NodeRedacted(before, after) ==
    /\ IsDict(before)
    /\ "attributes" \in DOMAIN before
    /\ \E p \in 1..Len(before.attributes) :
          after.attributes[p] = MASKED /\ before.attributes[p] # MASKED

\* The event just processed had a value replaced by the token.
Redacted ==
    /\ ret.op = "process_event"
    /\ ~IsExc(ret.value)
    /\ \/ /\ arg.event.type = "dom_attribute_modified"
          /\ Get(ret.value.data, "value", "") = MASKED
          /\ Get(arg.event.data, "value", "") # MASKED
       \/ /\ arg.event.type = "dom_set_child_nodes"
          /\ \E i \in 1..Len(arg.event.data.nodes) :
                NodeRedacted(arg.event.data.nodes[i], ret.value.data.nodes[i])

\* The marker is in the payload of the event: on the data, or on one of
\* its nodes.
Tagged(event) ==
    \/ Get(event.data, "_masked", FALSE)
    \/ /\ "nodes" \in DOMAIN event.data
       /\ \E i \in 1..Len(event.data.nodes) :
             /\ IsDict(event.data.nodes[i])
             /\ Get(event.data.nodes[i], "_masked", FALSE)

\* C25: an event in which process_event replaced a value by the token,
\* be it a dom_attribute_modified or a dom_set_child_nodes event, carries
\* the marker in its payload and is counted by analyze_events as a masked
\* event.
C25_RedactedEventsCounted ==
    Redacted =>
        /\ Tagged(ret.value)
        /\ analyze_events(arg.self, <<ret.value>>).value.masked_events = 1

-----------------------------------------------------------------------------
(* Claims about one session (checked under SpecSession) *)

\* This step is a stop_recording that has written its file and awaits the
\* close of the recorder.
StopSaved ==
    /\ ret'.op = "await recorder.close"
    /\ ret'.exc = None
    /\ now' = now

\* C24: the events a stop_recording writes are as many as the recorder
\* holds when it is called and have, position by position, the same type
\* and the same timestamp, and the timestamps written never decrease.
C24_StoredOrderIsCaptureOrder ==
    [][StopSaved =>
          LET captured == recorders[ret'.recorder].events
              stored == files'[ret'.file_path].doc.events
          IN  /\ Len(stored) = Len(captured)
              /\ \A i \in 1..Len(stored) :
                    /\ stored[i].type = captured[i].type
                    /\ stored[i].timestamp = captured[i].timestamp
              /\ \A i, j \in 1..Len(stored) :
                    i < j => StrLessEq(stored[i].timestamp,
                                       stored[j].timestamp)]_vars

\* A stop has written two events of different kinds captured at different
\* times, the second of them masked.
C24_Witness ==
    /\ ret.op = "await recorder.close"
    /\ ret.exc = None
    /\ LET stored == files[ret.file_path].doc.events
       IN  /\ Len(stored) = 2
           /\ stored[1].type = "document_updated"
           /\ stored[2].type = "dom_attribute_modified"
           /\ stored[2].data.value = MASKED
           /\ stored[1].timestamp # stored[2].timestamp

\* C30: the recording that the stop of a session writes has as its url
\* the URL the session was started with, and None only when it was
\* started without one.
C30_UrlPersisted ==
    \A f \in DOMAIN files : files[f].doc.url = Get(arg, "url", None)
\* The calls suspended on the recorder of which this step may be the end.
EndedFrames ==
    {i \in DOMAIN recorders[ret'.recorder].stopping :
        recorders'[ret'.recorder].stopping
            = Without(recorders[ret'.recorder].stopping, i)}

\* C26: when a stop_recording returns its result, the file it names holds
\* exactly the processed events the call took from the recorder when it
\* began, whatever the page has signalled since, and the count it reports
\* is the event_count and the number of events of that file; a file is
\* written only by a stop_recording before it awaits the close, never
\* after.
C26_SavedBeforeSuccess ==
    [][/\ (StopEnded /\ ret'.exc = None /\ now' = now) =>
            \E i \in EndedFrames :
                LET frame == recorders[ret'.recorder].stopping[i]
                IN  /\ ret'.file_path = frame.file_path
                    /\ ret'.file_path \in DOMAIN files'
                    /\ files'[ret'.file_path].doc.events
                          = frame.processed_events
                    /\ files'[ret'.file_path].doc.metadata.event_count
                          = ret'.count
                    /\ Len(files'[ret'.file_path].doc.events) = ret'.count
       /\ files' # files => ret'.op = "await recorder.close"]_vars

\* C27: a stop_recording whose masking and saving succeeded returns the
\* path of its file and its count and leaves its session id out of the
\* registry of active sessions, also when a release of close (the page,
\* the browser or the driver) raised.
C27_ReleaseFailureNotPropagated ==
    [][(StopEnded /\ now' = now) =>
          /\ EndedFrames # {}
          /\ \A i \in EndedFrames :
                LET frame == recorders[ret'.recorder].stopping[i]
                IN  frame.exc = None =>
                        /\ ret'.exc = None
                        /\ ret'.file_path = frame.file_path
                        /\ ret'.file_path \in DOMAIN files'
                        /\ ret'.count = frame.count
                        /\ frame.session_id \notin DOMAIN active_recorders']_vars

\* A stop has returned its file although page.close() raised: the
\* recorder still holds its page, its browser and its driver, and no
\* session is registered.
C27_Witness ==
    /\ ret.op = "stop_recording"
    /\ ret.recorder # None
    /\ ret.exc = None
    /\ ret.file_path \in DOMAIN files
    /\ ret.count = 2
    /\ recorders[ret.recorder].page
    /\ recorders[ret.recorder].browser
    /\ recorders[ret.recorder].playwright
    /\ recorders[ret.recorder].stopping = <<>>
    /\ active_recorders = <<>>

-----------------------------------------------------------------------------
(* Claims about get_recording (checked under SpecGet) *)

GetReturned == ret.op = "get_recording" /\ ret.exc = None

\* No filter is supplied, as C29 lists them.
NoFilterSupplied ==
    /\ Get(arg, "event_types", <<>>) = <<>>
    /\ "limit" \notin DOMAIN arg
    /\ Get(arg, "offset", 0) = 0
    /\ "from_timestamp" \notin DOMAIN arg
    /\ "to_timestamp" \notin DOMAIN arg

\* No filter is in effect: none is supplied, or those supplied are an
\* empty list of types, an offset that is not positive, empty timestamps.
NoFilterInEffect ==
    /\ Get(arg, "event_types", <<>>) = <<>>
    /\ "limit" \notin DOMAIN arg
    /\ Get(arg, "offset", 0) <= 0
    /\ Get(arg, "from_timestamp", "") = ""
    /\ Get(arg, "to_timestamp", "") = ""

\* What load_filtered_recording returns for the arguments when it is
\* asked for the events.
FilteredEvents ==
    load_filtered_recording(files, arg.session_id, ret.first,
        Optional(arg, "event_types"), Optional(arg, "limit"),
        Get(arg, "offset", 0), Get(arg, "from_timestamp", None),
        Get(arg, "to_timestamp", None), TRUE).value.events

\* C29 as claimed: the recording get_recording returns has no events key
\* exactly when event_types is absent or empty, limit is absent, offset is
\* absent or 0 and both timestamps are absent; otherwise it has the
\* filtered events.
C29_AsClaimed ==
    GetReturned =>
        /\ ("events" \notin DOMAIN ret.value) <=> NoFilterSupplied
        /\ "events" \in DOMAIN ret.value => ret.value.events = FilteredEvents

\* C29 as amended: the recording get_recording returns has no events key
\* exactly when no filter is in effect, that is when event_types is absent
\* or empty, limit is absent, offset is absent or not positive and each
\* timestamp is absent or empty; otherwise (a limit of 0 included) it has
\* the filtered events and their number as returned_events.
C29_EventsOnlyWithFilters ==
    GetReturned =>
        /\ ("events" \notin DOMAIN ret.value) <=> NoFilterInEffect
        /\ "events" \in DOMAIN ret.value =>
              /\ ret.value.events = FilteredEvents
              /\ ret.value.metadata.returned_events = Len(ret.value.events)

\* get_recording has returned the events for a limit of 0 and nothing
\* else: none of the three stored.
C29_Witness ==
    /\ GetReturned
    /\ DOMAIN arg = {"session_id", "limit"}
    /\ arg.limit = 0
    /\ ret.value.events = <<>>
    /\ ret.value.metadata.total_events = 3

-----------------------------------------------------------------------------
(* Claims about getXPath (checked under SpecXPath) *)

\* '/tag[k]' of an element: k counts the element siblings of its tag up to
\* and including the element.
XPathStep(doc, element) ==
    LET node == doc[element]
        siblings == IF node.parentNode = None THEN <<element>>
                    ELSE doc[node.parentNode].childNodes
        i == CHOOSE k \in DOMAIN siblings : siblings[k] = element
        k == Cardinality({j \in 1..i :
                            /\ doc[siblings[j]].nodeType = 1
                            /\ doc[siblings[j]].tagName = node.tagName})
    IN  "/" \o lower(node.tagName) \o "[" \o Digit(k) \o "]"

RECURSIVE XPathsClaimed(_, _)
\* The paths that answer the description: the steps of the element and of
\* its ancestors, below '/html/body', below the id of the nearest ancestor
\* that has one, or below nothing when the chain ends at the document node
\* or at an element without a parent (whose own step may be left out).
XPathsClaimed(doc, element) ==
    IF element = None THEN {""}
    ELSE LET node == doc[element]
         IN  IF node.nodeType # 1 THEN {""}
             ELSE IF node.id # "" THEN {"//*[@id=\"" \o node.id \o "\"]"}
             ELSE IF element = "body" THEN {"/html/body"}
             ELSE IF node.parentNode = None
             THEN {"", XPathStep(doc, element)}
             ELSE {p \o XPathStep(doc, element) :
                        p \in XPathsClaimed(doc, node.parentNode)}

\* C31: for an element without an id, getXPath returns the xpath of its
\* parent followed by '/tag[k]', k being the 1-based count of the element
\* siblings of its tag up to and including it; the path starts at
\* '/html/body', at the id of an ancestor, or, when the chain of ancestors
\* ends at the document node or at an element without a parent, is made of
\* '/tag[k]' steps only.
C31_XPathOfElementWithoutId ==
    (ret.op = "getXPath" /\ arg.doc[arg.target].id = "")
        => ret.value \in XPathsClaimed(arg.doc, arg.target)

-----------------------------------------------------------------------------
(* Claims about the browsers of the server (checked under SpecLaunch) *)

\* C32: in every state in which no start is in flight, each recorder whose
\* browser was launched and is not closed is registered in active_recorders
\* under its session id; a start that fails after the launch leaves no
\* browser open.
C32_LaunchedBrowsersRegistered ==
    \A h \in DOMAIN recorders :
        recorders[h].browser =>
            /\ recorders[h].session_id \in DOMAIN active_recorders
            /\ active_recorders[recorders[h].session_id] = h

-----------------------------------------------------------------------------
(* Claims about reprocessing (checked under SpecReprocess) *)

\* C33: process_events applied to a list that process_events returned
\* returns a list equal to it: no value changes again and no marker is
\* added or removed.
C33_MaskingIdempotent ==
    (ret.op = "process_events" /\ ret.again)
        => ret.result = [value |-> ret.events]

\* The second pass over a list whose first pass masked the value of a
\* password field which the selector "hunter" had matched by that value,
\* so that the field is not found sensitive again.
C33_Witness ==
    /\ ret.op = "process_events"
    /\ ret.again
    /\ ~IsExc(ret.result)
    /\ Len(ret.events) = 2
    /\ ret.events[1].type = "dom_set_child_nodes"
    /\ \E i \in DOMAIN ret.events[1].data.nodes :
          LET node == ret.events[1].data.nodes[i]
          IN  /\ IsDict(node)
              /\ Get(node, "_masked", FALSE)
              /\ \E p \in DOMAIN node.attributes : node.attributes[p] = MASKED
              /\ ~_is_sensitive_field(arg.self, node)
    /\ ret.events[2].data.value = MASKED

-----------------------------------------------------------------------------
(* Claims about paging (checked under SpecPages) *)

\* The events load_filtered_recording returns for the filters of arg with
\* no offset and no limit.
AllFiltered ==
    load_filtered_recording(files, ID_A, ret.first, arg.event_types, Nothing,
                            0, arg.from_timestamp, arg.to_timestamp,
                            TRUE).value.events

\* The events of the list from position offset + 1 on, at most limit.
PageOf(events, offset, limit) ==
    [i \in 1..(IF Len(events) - offset < limit
               THEN (IF Len(events) > offset THEN Len(events) - offset ELSE 0)
               ELSE limit) |-> events[offset + i]]

\* C34: with the session and the filters fixed, the page returned for
\* limit k >= 1 at offset 0, k, 2k, ... holds the events of the unpaged
\* result from position offset + 1 on, at most k of them, so that the pages
\* up to the first empty one, one after the other, are the unpaged result
\* with no event twice and none left out; and for a limit >= 0 no more
\* than limit events are returned.
C34_PagesPartition ==
    ret.op = "load_filtered_recording" =>
        /\ ret.exc = None
        /\ Len(ret.value.events) <= arg.limit
        /\ arg.limit >= 1 =>
              ret.value.events = PageOf(AllFiltered, ret.offset, arg.limit)

\* The second page of size 2 of three stored events, which holds the third
\* and is followed by an empty page.
C34_Witness ==
    /\ ret.op = "load_filtered_recording"
    /\ arg.limit = 2
    /\ ret.offset = 2
    /\ Len(AllFiltered) = 3
    /\ ret.value.events = <<AllFiltered[3]>>

====
